---- MODULE Spec2Model ----
(***************************************************************************)
(* Model of python/ambassador/envoy/v3/v3listener.py: V3ListenerCollection, *)
(* V3Listener (add_irlistener, make_vhost, finalize, as_dict, generate) and *)
(* V3TCPListener.                                                           *)
(*                                                                          *)
(* Python values are modelled as follows.  A hostname is the sequence of    *)
(* its dot-separated labels ("foo.example.com" is <<"foo","example","com">>,*)
(* "*" is <<"*">>, the empty string is << >>).  None is the string "None"   *)
(* for actions and TLS contexts, and the port 0 for insecure_addl_port      *)
(* (line 632 treats None and every port <= 0 alike).  A Python dict is the  *)
(* sequence of its entries in insertion order.                              *)
(***************************************************************************)
EXTENDS Integers, Sequences, FiniteSets, TLC

VARIABLES
    ir_listeners,      \* config.ir.listeners: the ingress declarations (input)
    routes,            \* config.routes: the routing rules, already ordered (input)
    tcp_groups,        \* the IRTCPMappingGroups of config.ir.ordered_groups() (input)
    edge_stack_allowed,\* config.ir.edge_stack_allowed (input)
    agent_active,      \* config.ir.agent_active (input)
    ambassador_module, \* config.ir.ambassador_module, the header-case settings (input)
    pc,                \* position inside V3Listener.generate
    idx,               \* index of the next element of the loop generate is in
    listeners_by_port, \* V3ListenerCollection.listeners, in insertion order
    first_irlistener_by_port, \* generate's local dict, port -> declaration index
    config_listeners,  \* config.listeners: the emitted output
    tcplisteners,      \* generate's local dict group_key -> index in config_listeners
    err,               \* which exception ended the last call ("" when none did)
    call,              \* the arguments of the last direct make_vhost call
    outputs,           \* config.listeners as each call of generate returned it
    http_config,       \* what the last call of base_http_config returned
    posted_errors      \* the diagnostics given to config.ir.post_error

vars == <<ir_listeners, routes, tcp_groups, edge_stack_allowed, agent_active,
          ambassador_module, pc, idx, listeners_by_port, first_irlistener_by_port,
          config_listeners, tcplisteners, err, call, outputs, http_config,
          posted_errors>>

None == "None"

-----------------------------------------------------------------------------
(* Hostnames *)

Star == <<"*">>
EmptyHost == << >>
FooExample == <<"foo", "example", "com">>
OtherCom == <<"other", "com">>
StarExample == <<"*", "example", "com">>

\* Python's `x or "*"` on a string
OrStar(hostname) == IF hostname = EmptyHost THEN Star ELSE hostname

-----------------------------------------------------------------------------
(* Ports *)

ACMEPort == 8080
SecurePort == 8443
NoPort == 0

\* config.ir.ambassador_module.service_port
ModuleServicePort == SecurePort

-----------------------------------------------------------------------------
(* V3VirtualHost: the attributes v3listener.py reads and writes.  key is   *)
(* the key the object is stored under in V3Listener.vhosts.                *)

V3VirtualHost(name, hostname, ctx, secure, action, insecure_action) ==
    [key |-> hostname, _name |-> name, _hostname |-> hostname, _ctx |-> ctx,
     _secure |-> secure, _action |-> action, _insecure_action |-> insecure_action,
     routes |-> << >>]

-----------------------------------------------------------------------------
(* V3Listener *)

\* V3Listener.__init__
V3ListenerInit(port) ==
    [port |-> port, use_proxy_proto |-> FALSE, vhosts |-> << >>, first_vhost |-> 0]

\* `hostname in self.vhosts`
HasVhost(listener, hostname) ==
    \E n \in 1..Len(listener.vhosts) : listener.vhosts[n].key = hostname

\* self.vhosts.get(hostname): the index of the entry, 0 for None
VhostIndex(listener, hostname) ==
    IF HasVhost(listener, hostname)
    THEN CHOOSE n \in 1..Len(listener.vhosts) : listener.vhosts[n].key = hostname
    ELSE 0

\* add_irlistener without the test for a vhost of the hostname
AddIRListenerUnchecked(listener, irl) ==
    IF irl.service_port # listener.port THEN "wrong_port" ELSE ""

\* V3Listener.add_irlistener: the exception it raises, "" when it returns
AddIRListener(listener, irl) ==
    IF irl.service_port # listener.port THEN "wrong_port"
    ELSE IF HasVhost(listener, irl.hostname) THEN "vhost_collision"
    ELSE ""

\* The comparison of make_vhost's arguments with the existing vhost
VhostDiffers(vhost, hostname, ctx, secure, action, insecure_action) ==
    \/ hostname # vhost._hostname
    \/ ctx # vhost._ctx
    \/ secure # vhost._secure
    \/ action # vhost._action
    \/ insecure_action # vhost._insecure_action

\* make_vhost without the `if not self.first_vhost` guard: the vhost made last
\* becomes first_vhost
MakeVhostLastIsFirst(listener, name, hostname, ctx, secure, action, insecure_action) ==
    LET n == VhostIndex(listener, hostname) IN
    IF n # 0
    THEN IF VhostDiffers(listener.vhosts[n], hostname, ctx, secure, action, insecure_action)
         THEN [err |-> "vhost_redefinition", listener |-> listener]
         ELSE [err |-> "", listener |-> listener]
    ELSE LET vhost == V3VirtualHost(name, hostname, ctx, secure, action, insecure_action)
             added == Append(listener.vhosts, vhost)
         IN  [err |-> "",
              listener |-> [listener EXCEPT !.vhosts = added, !.first_vhost = Len(added)]]

\* make_vhost with the vhosts keyed by (hostname, secure, context): a registration
\* that differs from the existing one in secure or context makes another vhost
MakeVhostCompositeKey(listener, name, hostname, ctx, secure, action, insecure_action) ==
    LET same == {n \in 1..Len(listener.vhosts) :
                    /\ listener.vhosts[n].key = hostname
                    /\ listener.vhosts[n]._secure = secure
                    /\ listener.vhosts[n]._ctx = ctx}
    IN
    IF same # {}
    THEN IF \E n \in same : VhostDiffers(listener.vhosts[n], hostname, ctx, secure,
                                         action, insecure_action)
         THEN [err |-> "vhost_redefinition", listener |-> listener]
         ELSE [err |-> "", listener |-> listener]
    ELSE LET vhost == V3VirtualHost(name, hostname, ctx, secure, action, insecure_action)
             added == Append(listener.vhosts, vhost)
         IN  [err |-> "",
              listener |-> [listener EXCEPT
                  !.vhosts = added,
                  !.first_vhost = IF listener.first_vhost = 0 THEN Len(added)
                                  ELSE listener.first_vhost]]

\* make_vhost that stores the new vhost over an existing one instead of comparing
MakeVhostOverwrite(listener, name, hostname, ctx, secure, action, insecure_action) ==
    LET n == VhostIndex(listener, hostname)
        vhost == V3VirtualHost(name, hostname, ctx, secure, action, insecure_action)
        added == IF n # 0 THEN [listener.vhosts EXCEPT ![n] = vhost]
                 ELSE Append(listener.vhosts, vhost)
    IN  [err |-> "",
         listener |-> [listener EXCEPT
             !.vhosts = added,
             !.first_vhost = IF listener.first_vhost = 0 THEN Len(added)
                             ELSE listener.first_vhost]]

\* V3Listener.make_vhost: [err, listener]
MakeVhost(listener, name, hostname, ctx, secure, action, insecure_action) ==
    LET n == VhostIndex(listener, hostname) IN
    IF n # 0
    THEN IF VhostDiffers(listener.vhosts[n], hostname, ctx, secure, action, insecure_action)
         THEN [err |-> "vhost_redefinition", listener |-> listener]
         ELSE [err |-> "", listener |-> listener]
    ELSE LET vhost == V3VirtualHost(name, hostname, ctx, secure, action, insecure_action)
             added == Append(listener.vhosts, vhost)
         IN  [err |-> "",
              listener |-> [listener EXCEPT
                  !.vhosts = added,
                  !.first_vhost = IF listener.first_vhost = 0 THEN Len(added)
                                  ELSE listener.first_vhost]]

-----------------------------------------------------------------------------
(* V3ListenerCollection *)

\* V3ListenerCollection.__contains__
Contains(lbp, port) == \E n \in 1..Len(lbp) : lbp[n].port = port

\* The position of the listener of a port in the collection
PortIndex(lbp, port) == CHOOSE n \in 1..Len(lbp) : lbp[n].port = port

\* V3ListenerCollection.__getitem__: the collection after self[port]
GetItem(lbp, port) ==
    IF Contains(lbp, port) THEN lbp ELSE Append(lbp, V3ListenerInit(port))

\* get without the check of an existing listener's flag
CollectionGetUnchecked(lbp, port, use_proxy_proto) ==
    LET set_upp == ~Contains(lbp, port)
        got == GetItem(lbp, port)
        n == PortIndex(got, port)
    IN  IF set_upp
        THEN [err |-> "", lbp |-> [got EXCEPT ![n].use_proxy_proto = use_proxy_proto]]
        ELSE [err |-> "", lbp |-> got]

\* V3ListenerCollection.get: [err, lbp]
CollectionGet(lbp, port, use_proxy_proto) ==
    LET set_upp == ~Contains(lbp, port)
        got == GetItem(lbp, port)
        n == PortIndex(got, port)
    IN  IF set_upp
        THEN [err |-> "", lbp |-> [got EXCEPT ![n].use_proxy_proto = use_proxy_proto]]
        ELSE IF got[n].use_proxy_proto # use_proxy_proto
             THEN [err |-> "upp_conflict", lbp |-> got]
             ELSE [err |-> "", lbp |-> got]

\* Replace the listener of a port in the collection
SetListener(lbp, port, listener) == [lbp EXCEPT ![PortIndex(lbp, port)] = listener]

\* first_irlistener_by_port after `if port not in d: d[port] = irlistener`
\* (the dict holds the index of the declaration, 0 for a missing key)
SetDefault(fibp, port, i) ==
    IF fibp[port] = 0 THEN [fibp EXCEPT ![port] = i] ELSE fibp

-----------------------------------------------------------------------------
(* V3Listener.generate, the body of the loop over config.ir.listeners      *)

\* The insecure_addl_port part without `if vhostname not in listener.vhosts`:
\* make_vhost is called whether or not the hostname is registered on the port
InsecureAddlPortUnchecked(lbp, fibp, irl, i) ==
    LET vhostname == OrStar(irl.hostname)
        g == CollectionGet(lbp, irl.insecure_addl_port, irl.use_proxy_proto)
        fibp2 == SetDefault(fibp, irl.insecure_addl_port, i)
    IN  IF g.err # "" THEN [err |-> g.err, lbp |-> g.lbp, fibp |-> fibp]
        ELSE LET listener == g.lbp[PortIndex(g.lbp, irl.insecure_addl_port)]
                 m == MakeVhost(listener, vhostname, vhostname, None, FALSE,
                                None, irl.insecure_action)
             IN  [err |-> m.err,
                  lbp |-> SetListener(g.lbp, irl.insecure_addl_port, m.listener),
                  fibp |-> fibp2]

\* The insecure_addl_port part of the loop body: [err, lbp, fibp]
InsecureAddlPort(lbp, fibp, irl, i) ==
    LET vhostname == OrStar(irl.hostname)
        g == CollectionGet(lbp, irl.insecure_addl_port, irl.use_proxy_proto)
        fibp2 == SetDefault(fibp, irl.insecure_addl_port, i)
    IN  IF g.err # "" THEN [err |-> g.err, lbp |-> g.lbp, fibp |-> fibp]
        ELSE LET listener == g.lbp[PortIndex(g.lbp, irl.insecure_addl_port)] IN
             IF HasVhost(listener, vhostname)
             THEN [err |-> "", lbp |-> g.lbp, fibp |-> fibp2]
             ELSE LET m == MakeVhost(listener, vhostname, vhostname, None, FALSE,
                                     None, irl.insecure_action)
                  IN  [err |-> m.err,
                       lbp |-> SetListener(g.lbp, irl.insecure_addl_port, m.listener),
                       fibp |-> fibp2]

\* One iteration of `for irlistener in config.ir.listeners`: [err, lbp, fibp]
ProcessIRListener(lbp, fibp, irl, i) ==
    LET fibp1 == SetDefault(fibp, irl.service_port, i)
        g == CollectionGet(lbp, irl.service_port, irl.use_proxy_proto)
    IN  IF g.err # "" THEN [err |-> g.err, lbp |-> g.lbp, fibp |-> fibp1]
        ELSE
        LET listener == g.lbp[PortIndex(g.lbp, irl.service_port)]
            a == AddIRListener(listener, irl)
        IN  IF a # "" THEN [err |-> a, lbp |-> g.lbp, fibp |-> fibp1]
            ELSE
            LET vhostname == OrStar(irl.hostname)
                m == MakeVhost(listener, vhostname, vhostname, irl.context, TRUE,
                               irl.secure_action, irl.insecure_action)
                lbp2 == SetListener(g.lbp, irl.service_port, m.listener)
            IN  IF m.err # "" THEN [err |-> m.err, lbp |-> lbp2, fibp |-> fibp1]
                ELSE IF irl.insecure_addl_port > NoPort
                     THEN InsecureAddlPort(lbp2, fibp1, irl, i)
                     ELSE [err |-> "", lbp |-> lbp2, fibp |-> fibp1]

-----------------------------------------------------------------------------
(* V3Listener.generate, between the declarations and the routes             *)

\* The body of `for port, listener in listeners_by_port.items()` at line 655
ForceStar(listener) ==
    IF ~HasVhost(listener, Star)
    THEN LET f == listener.first_vhost IN
         [listener EXCEPT
             !.vhosts[f]._hostname = Star,
             !.vhosts[f]._name = Append(listener.vhosts[f]._name, "-forced-star")]
    ELSE listener

\* The edge-stack block without the `not config.ir.agent_active` test
ForceACMEListenerAlways(lbp, fibp, edge, agent, decls) ==
    IF edge /\ ~Contains(lbp, ACMEPort)
    THEN LET g == CollectionGet(lbp, ACMEPort, FALSE)
             m == MakeVhost(g.lbp[PortIndex(g.lbp, ACMEPort)], <<"forced-8080">>, Star,
                            None, FALSE, None, "Reject")
         IN  SetListener(g.lbp, ACMEPort, m.listener)
    ELSE lbp

\* The edge-stack block at lines 664-687: the collection after it
ForceACMEListener(lbp, fibp, edge, agent, decls) ==
    IF edge /\ ~agent /\ ~Contains(lbp, ACMEPort)
    THEN LET main_listener == fibp[ModuleServicePort]
             use_proxy_proto == IF main_listener # 0
                                THEN decls[main_listener].use_proxy_proto
                                ELSE FALSE
             g == CollectionGet(lbp, ACMEPort, use_proxy_proto)
             m == MakeVhost(g.lbp[PortIndex(g.lbp, ACMEPort)], <<"forced-8080">>, Star,
                            None, FALSE, None, "Reject")
         IN  SetListener(g.lbp, ACMEPort, m.listener)
    ELSE lbp

-----------------------------------------------------------------------------
(* V3Listener.generate, the walk over config.routes                         *)
(*                                                                          *)
(* A routing rule is [prefix, regex, headers, route, hosts, precedence]:    *)
(* match.prefix, match.safe_regex.regex, match.headers, the route action,   *)
(* the result of host_constraints() and _precedence.  A derived route is    *)
(* [match, route, redirect]; a missing key is None.                         *)

ACMEPrefix == "/.well-known/acme-challenge/"
RootRegex == "^/$"
FallbackPrecedence == -1000000

\* str.lower() on the strings of the model
Lower(name) ==
    CASE name = "X-Forwarded-Proto" -> "x-forwarded-proto"
      [] name = "FOO" -> "foo"
      [] name = "X-Cool" -> "x-cool"
      [] name = "X-COOL" -> "x-cool"
      [] OTHER -> name

XFPGuard == [name |-> "x-forwarded-proto", exact_match |-> "https"]

\* c_route.host_constraints(prune_unreachable_routes)
HostConstraints(c_route) == c_route.hosts

\* insecure_route: the rule without _sni and _precedence
InsecureRoute(c_route) ==
    [match |-> [prefix |-> c_route.prefix, regex |-> c_route.regex,
                headers |-> c_route.headers],
     route |-> c_route.route, redirect |-> None]

\* found_xfp
FoundXFP(headers) ==
    \E n \in 1..Len(headers) : Lower(headers[n].name) = "x-forwarded-proto"

\* secure_route: the insecure route with an explicit XFP check
SecureRoute(c_route) ==
    LET insecure_route == InsecureRoute(c_route) IN
    IF FoundXFP(insecure_route.match.headers)
    THEN insecure_route
    ELSE [insecure_route EXCEPT
              !.match.headers = Append(insecure_route.match.headers, XFPGuard)]

\* redirect_route
RedirectRoute(c_route) ==
    [InsecureRoute(c_route) EXCEPT !.route = None, !.redirect = "https_redirect"]

\* candidates without the redirect route: Redirect is treated as any other
\* insecure action
CandidatesWithoutRedirect(vhost, c_route) ==
    (IF vhost._action # None
     THEN << [secure |-> TRUE, route |-> SecureRoute(c_route), action |-> vhost._action] >>
     ELSE << >>)
    \o
    (IF vhost._insecure_action # None
     THEN << [secure |-> FALSE, route |-> InsecureRoute(c_route),
              action |-> vhost._insecure_action] >>
     ELSE << >>)

\* candidates, for one vhost: a sequence of [secure, route, action]
Candidates(vhost, c_route) ==
    (IF vhost._action # None
     THEN << [secure |-> TRUE, route |-> SecureRoute(c_route), action |-> vhost._action] >>
     ELSE << >>)
    \o
    (IF vhost._insecure_action = "Redirect"
     THEN << [secure |-> FALSE, route |-> RedirectRoute(c_route), action |-> "Redirect"] >>
     ELSE IF vhost._insecure_action # None
          THEN << [secure |-> FALSE, route |-> InsecureRoute(c_route),
                   action |-> vhost._insecure_action] >>
          ELSE << >>)

\* The overrides without the ACME hole-puncher
ResolveWithoutACME(cand, c_route, vhostname, edge) ==
    LET route_hosts == HostConstraints(c_route) IN
    IF Star \notin route_hosts /\ vhostname # Star /\ vhostname \notin route_hosts
    THEN [cand EXCEPT !.action = "Reject"]
    ELSE IF edge /\ c_route.precedence = FallbackPrecedence
                 /\ cand.route.match.regex = RootRegex
    THEN [cand EXCEPT !.action = "Route", !.route = InsecureRoute(c_route)]
    ELSE cand

\* The overrides without the host-mismatch test
ResolveWithoutHosts(cand, c_route, vhostname, edge) ==
    IF cand.route.match.prefix = ACMEPrefix
    THEN [cand EXCEPT !.action = "Route",
                      !.route = IF cand.secure THEN SecureRoute(c_route)
                                ELSE InsecureRoute(c_route)]
    ELSE IF edge /\ c_route.precedence = FallbackPrecedence
                 /\ cand.route.match.regex = RootRegex
    THEN [cand EXCEPT !.action = "Route", !.route = InsecureRoute(c_route)]
    ELSE cand

\* The overrides with the host-mismatch test ahead of the ACME hole-puncher
ResolveHostsFirst(cand, c_route, vhostname, edge) ==
    LET route_hosts == HostConstraints(c_route) IN
    IF Star \notin route_hosts /\ vhostname # Star /\ vhostname \notin route_hosts
    THEN [cand EXCEPT !.action = "Reject"]
    ELSE IF cand.route.match.prefix = ACMEPrefix
    THEN [cand EXCEPT !.action = "Route",
                      !.route = IF cand.secure THEN SecureRoute(c_route)
                                ELSE InsecureRoute(c_route)]
    ELSE IF edge /\ c_route.precedence = FallbackPrecedence
                 /\ cand.route.match.regex = RootRegex
    THEN [cand EXCEPT !.action = "Route", !.route = InsecureRoute(c_route)]
    ELSE cand

\* The overrides with an ACME hole-puncher that forces the action and leaves the
\* route of the candidate as it is
ResolveACMEKeepsRoute(cand, c_route, vhostname, edge) ==
    LET route_hosts == HostConstraints(c_route) IN
    IF cand.route.match.prefix = ACMEPrefix
    THEN [cand EXCEPT !.action = "Route"]
    ELSE IF Star \notin route_hosts /\ vhostname # Star /\ vhostname \notin route_hosts
    THEN [cand EXCEPT !.action = "Reject"]
    ELSE IF edge /\ c_route.precedence = FallbackPrecedence
                 /\ cand.route.match.regex = RootRegex
    THEN [cand EXCEPT !.action = "Route", !.route = InsecureRoute(c_route)]
    ELSE cand

\* The overrides of lines 767-800 applied to one candidate: [secure, route, action]
Resolve(cand, c_route, vhostname, edge) ==
    LET route_hosts == HostConstraints(c_route) IN
    IF cand.route.match.prefix = ACMEPrefix
    THEN [cand EXCEPT !.action = "Route",
                      !.route = IF cand.secure THEN SecureRoute(c_route)
                                ELSE InsecureRoute(c_route)]
    ELSE IF Star \notin route_hosts /\ vhostname # Star /\ vhostname \notin route_hosts
    THEN [cand EXCEPT !.action = "Reject"]
    ELSE IF edge /\ c_route.precedence = FallbackPrecedence
                 /\ cand.route.match.regex = RootRegex
    THEN [cand EXCEPT !.action = "Route", !.route = InsecureRoute(c_route)]
    ELSE cand

\* The same with every accepted route put at the head of vhost.routes
RECURSIVE AppendCandidatesAtHead(_, _, _, _, _, _)
AppendCandidatesAtHead(vroutes, cands, c_route, j, vhostname, edge) ==
    IF cands = << >> THEN vroutes
    ELSE LET r == Resolve(Head(cands), c_route, vhostname, edge)
             appended == IF r.action # "Reject"
                         THEN << [route |-> r.route, rule |-> j,
                                  secure |-> r.secure, action |-> r.action] >> \o vroutes
                         ELSE vroutes
         IN  AppendCandidatesAtHead(appended, Tail(cands), c_route, j, vhostname, edge)

\* vhost.routes after the candidates of one rule (rule number j) were resolved.
\* An entry is the appended route; rule, secure and action record which rule and
\* candidate it came from and the action it was accepted as.
RECURSIVE AppendCandidates(_, _, _, _, _, _)
AppendCandidates(vroutes, cands, c_route, j, vhostname, edge) ==
    IF cands = << >> THEN vroutes
    ELSE LET r == Resolve(Head(cands), c_route, vhostname, edge)
             appended == IF r.action # "Reject"
                         THEN Append(vroutes, [route |-> r.route, rule |-> j,
                                               secure |-> r.secure, action |-> r.action])
                         ELSE vroutes
         IN  AppendCandidates(appended, Tail(cands), c_route, j, vhostname, edge)

\* The same with the key of the vhost taken for its hostname
WalkVhostByKey(vhost, c_route, j, edge) ==
    [vhost EXCEPT !.routes = AppendCandidates(vhost.routes, Candidates(vhost, c_route),
                                              c_route, j, vhost.key, edge)]

\* The body of `for vhostkey, vhost in listener.vhosts.items()`
WalkVhost(vhost, c_route, j, edge) ==
    [vhost EXCEPT !.routes = AppendCandidates(vhost.routes, Candidates(vhost, c_route),
                                              c_route, j, vhost._hostname, edge)]

\* The body of `for port, listener in listeners_by_port.items()` at line 746
WalkListener(listener, c_route, j, edge) ==
    [listener EXCEPT !.vhosts = [n \in 1..Len(listener.vhosts) |->
                                    WalkVhost(listener.vhosts[n], c_route, j, edge)]]

-----------------------------------------------------------------------------
(* V3Listener.finalize and as_dict                                          *)

\* vhost._ctx.hosts
CtxHosts(ctx) == IF ctx = "ctx-hosts" THEN << FooExample, OtherCom >> ELSE << >>

\* domains
Domains(vhost) ==
    IF vhost._hostname = Star THEN << vhost._hostname >>
    ELSE IF vhost._ctx # None /\ Len(CtxHosts(vhost._ctx)) > 0
         THEN CtxHosts(vhost._ctx)
         ELSE << vhost._hostname >>

\* vhost.filter_chain_match, built by V3VirtualHost.finalize
FilterChainMatch(vhost) ==
    [transport_protocol |-> IF vhost._ctx # None THEN "tls" ELSE None,
     server_names |-> IF vhost._hostname # Star THEN Domains(vhost) ELSE << >>]

\* One filter chain of V3Listener.finalize
FilterChain(listener, vhost) ==
    [filter_chain_match |-> FilterChainMatch(vhost),
     transport_socket |-> vhost._ctx,
     virtual_host |-> [name |-> <<"ambassador-listener-", ToString(listener.port)>>
                                 \o <<"-">> \o vhost._name,
                       domains |-> Domains(vhost),
                       routes |-> [n \in 1..Len(vhost.routes) |-> vhost.routes[n].route]]]

\* self.listener_filters after finalize
ListenerFilters(listener) ==
    (IF listener.use_proxy_proto THEN << "envoy.filters.listener.proxy_protocol" >>
     ELSE << >>)
    \o
    (IF \E n \in 1..Len(listener.vhosts) : listener.vhosts[n]._ctx # None
     THEN << "envoy.filters.listener.tls_inspector" >> ELSE << >>)

\* V3Listener.finalize followed by as_dict
AsDict(listener) ==
    [name |-> <<"ambassador-listener-", ToString(listener.port)>>,
     port_value |-> listener.port,
     filter_chains |-> [n \in 1..Len(listener.vhosts) |->
                           FilterChain(listener, listener.vhosts[n])],
     listener_filters |-> ListenerFilters(listener),
     traffic_direction |-> "UNSPECIFIED"]

-----------------------------------------------------------------------------
(* V3TCPListener.  A group is [address, port, tls_context, host, clusters]. *)

\* irgroup.bind_to()
BindTo(group) == << group.address, ToString(group.port) >>

\* V3TCPListener.__init__
V3TCPListenerInit(group) ==
    [name |-> << "listener-", group.address, "-", ToString(group.port) >>,
     port_value |-> group.port,
     filter_chains |-> << >>,
     listener_filters |-> IF group.tls_context # None
                          THEN << "envoy.filters.listener.tls_inspector" >> ELSE << >>,
     tls_context |-> group.tls_context]

\* V3TCPListener.add_group
AddGroup(tcplistener, group) ==
    LET host_wanted == OrStar(group.host)
        chain_entry ==
            [filters |-> group.clusters,
             transport_socket |-> tcplistener.tls_context,
             server_names |-> IF tcplistener.tls_context # None /\ host_wanted # Star
                              THEN << host_wanted >> ELSE << >>]
    IN  [tcplistener EXCEPT !.filter_chains = Append(tcplistener.filter_chains, chain_entry)]

\* tcplisteners.get(group_key, None): the index in config.listeners, 0 for None
TCPListenerIndex(tls, group_key) ==
    IF \E n \in 1..Len(tls) : tls[n].key = group_key
    THEN (CHOOSE e \in {tls[n] : n \in 1..Len(tls)} : e.key = group_key).index
    ELSE 0

-----------------------------------------------------------------------------
(* V3Listener.base_http_config, the header-case part (lines 377-434).  The   *)
(* Ambassador module is untyped: a value of it is [type, text, items], with *)
(* the Python type's name, the text of a string or number, and the entries  *)
(* of a list.                                                               *)

NoneValue == [type |-> "NoneType", text |-> "", items |-> << >>]
StrValue(text) == [type |-> "str", text |-> text, items |-> << >>]
IntValue(text) == [type |-> "int", text |-> text, items |-> << >>]
ListValue(items) == [type |-> "list", text |-> "", items |-> items]

\* The truth value Python gives a value in `if value:`
Truthy(value) ==
    CASE value.type = "NoneType" -> FALSE
      [] value.type = "str" -> value.text # ""
      [] value.type = "int" -> value.text # "0"
      [] value.type = "list" -> Len(value.items) > 0

\* isinstance(value, list)
IsList(value) == value.type = "list"

\* The diagnostics of base_http_config
BothSetError == "Only one of 'proper_case' or 'header_case_overrides' fields may be set"
NotAnArrayError == "Ambassador module config 'header_case_overrides' must be an array"
NonStringError == "Skipping non-string header in 'header_case_overrides'"
NoValidHeaderError == "Could not parse any valid string headers in 'header_case_overrides'"

\* The block at lines 383-396 without the isinstance test
CheckOverridesWithoutTypeCheck(proper_case, header_case_overrides) ==
    IF Truthy(header_case_overrides)
    THEN IF proper_case
         THEN [value |-> NoneValue, errors |-> << BothSetError >>]
         ELSE [value |-> header_case_overrides, errors |-> << >>]
    ELSE [value |-> header_case_overrides, errors |-> << >>]

\* header_case_overrides after the block at lines 383-396, and what it posted
CheckOverrides(proper_case, header_case_overrides) ==
    IF Truthy(header_case_overrides)
    THEN LET first == IF proper_case
                      THEN [value |-> NoneValue, errors |-> << BothSetError >>]
                      ELSE [value |-> header_case_overrides, errors |-> << >>]
         IN  IF ~IsList(first.value)
             THEN [value |-> NoneValue, errors |-> Append(first.errors, NotAnArrayError)]
             ELSE IF Len(first.value.items) = 0
                  THEN [value |-> NoneValue, errors |-> first.errors]
                  ELSE first
    ELSE [value |-> header_case_overrides, errors |-> << >>]

\* rules: the strings among the entries, in order
RECURSIVE StringHeaders(_)
StringHeaders(items) ==
    IF items = << >> THEN << >>
    ELSE IF Head(items).type = "str"
         THEN << Head(items).text >> \o StringHeaders(Tail(items))
         ELSE StringHeaders(Tail(items))

\* One diagnostic for every entry that is not a string
RECURSIVE SkippedHeaders(_)
SkippedHeaders(items) ==
    IF items = << >> THEN << >>
    ELSE IF Head(items).type = "str"
         THEN SkippedHeaders(Tail(items))
         ELSE << NonStringError >> \o SkippedHeaders(Tail(items))

\* { header.lower() : header for header in rules }: the dict as the sequence of
\* its entries; a key set again keeps its place and takes the new value
RECURSIVE LowerToHeader(_, _)
LowerToHeader(dict, rules) ==
    IF rules = << >> THEN dict
    ELSE LET header == Head(rules)
             entry == [key |-> Lower(header), value |-> header]
             set == IF \E n \in 1..Len(dict) : dict[n].key = entry.key
                    THEN [n \in 1..Len(dict) |->
                             IF dict[n].key = entry.key THEN entry ELSE dict[n]]
                    ELSE Append(dict, entry)
         IN  LowerToHeader(set, Tail(rules))

NoFormat == [kind |-> None, rules |-> << >>]
ProperCaseWords == [kind |-> "proper_case_words", rules |-> << >>]
CustomRules(rules) == [kind |-> "custom", rules |-> LowerToHeader(<< >>, rules)]

\* http_protocol_options of the configuration: whether the key is there,
\* accept_http_10 (None when the key is missing) and header_key_format
HTTPOptions(module) ==
    [present |-> module.enable_http10 # None,
     accept_http_10 |-> module.enable_http10,
     header_key_format |-> NoFormat]

\* The blocks at lines 398-427: [errors, options]
BuildRules(header_case_overrides, options) ==
    IF Truthy(header_case_overrides)
    THEN LET rules == StringHeaders(header_case_overrides.items)
             skipped == SkippedHeaders(header_case_overrides.items)
         IN  IF Len(rules) = 0
             THEN [errors |-> Append(skipped, NoValidHeaderError), options |-> options]
             ELSE [errors |-> skipped,
                   options |-> [options EXCEPT !.present = TRUE,
                                               !.header_key_format = CustomRules(rules)]]
    ELSE [errors |-> << >>, options |-> options]

\* Lines 377-436: what base_http_config posts and the options it returns
BaseHTTPConfig(module) ==
    LET checked == CheckOverrides(module.proper_case, module.header_case_overrides)
        built == BuildRules(checked.value, HTTPOptions(module))
        options == IF module.proper_case
                   THEN [built.options EXCEPT !.present = TRUE,
                                              !.header_key_format = ProperCaseWords]
                   ELSE built.options
    IN  [errors |-> checked.errors \o built.errors,
         http_protocol_options |-> options]

\* The module with none of the settings
DefaultModule ==
    [proper_case |-> FALSE, header_case_overrides |-> NoneValue, enable_http10 |-> None]

NoConfig == [present |-> FALSE, accept_http_10 |-> None, header_key_format |-> NoFormat]

-----------------------------------------------------------------------------
(* Inputs *)

MaxDecls == 2
MaxRoutes == 1
MaxCalls == 2
MaxHeaders == 2
MaxOrdered == 2
MaxRuns == 2
MaxGroups == 2

Ports == {ACMEPort, SecurePort}

\* An IRListener
IRListeners(ports, hostnames, contexts, actions, insecure_actions, addl_ports, upps) ==
    [service_port : ports, hostname : hostnames, context : contexts,
     secure_action : actions, insecure_action : insecure_actions,
     insecure_addl_port : addl_ports, use_proxy_proto : upps]

\* The declarations the listener assembly is explored with
ListenerDecls ==
    IRListeners(Ports, {EmptyHost, FooExample, OtherCom}, {None}, {"Route"},
                {"Redirect", "Reject"}, {NoPort, ACMEPort}, BOOLEAN)

\* The declarations the route walk is explored with: a declaration on 8443 with
\* the insecure additional port 8080, or one on 8080 alone
RouteDecls ==
    {irl \in IRListeners(Ports, {FooExample, OtherCom}, {None}, {"Route", "Reject"},
                         {"Route", "Redirect", "Reject"}, {NoPort, ACMEPort}, {FALSE}) :
        /\ <<irl.service_port, irl.insecure_addl_port>>
               \in {<<SecurePort, ACMEPort>>, <<ACMEPort, NoPort>>}
        /\ <<irl.secure_action, irl.insecure_action>>
               \in {<<"Route", "Redirect">>, <<"Route", "Route">>, <<"Reject", "Reject">>}}

\* The same without the restrictions, and with the empty hostname
WideRouteDecls ==
    IRListeners(Ports, {EmptyHost, FooExample, OtherCom}, {None},
                {"Route", "Reject"}, {"Route", "Redirect", "Reject"},
                {NoPort, ACMEPort}, {FALSE})

\* The declarations the order of the declarations is explored with: the insecure
\* additional port is none, 8080 or the secure port, so that two declarations
\* can name each other's service port
OrderDecls ==
    IRListeners(Ports, {EmptyHost, FooExample}, {None}, {"Route"},
                {"Redirect", "Reject"}, {NoPort, ACMEPort, SecurePort}, BOOLEAN)

\* A declaration without TLS context and proxy protocol
IRListener(port, hostname, secure_action, insecure_action, addl_port) ==
    [service_port |-> port, hostname |-> hostname, context |-> None,
     secure_action |-> secure_action, insecure_action |-> insecure_action,
     insecure_addl_port |-> addl_port, use_proxy_proto |-> FALSE]

\* The declarations the order of the output is explored with
MixedDecls ==
    {IRListener(SecurePort, FooExample, "Route", "Redirect", ACMEPort),
     IRListener(SecurePort, OtherCom, "Route", "Route", NoPort),
     IRListener(SecurePort, EmptyHost, "Route", "Reject", NoPort),
     IRListener(SecurePort, FooExample, "Route", "Reject", NoPort),
     IRListener(ACMEPort, FooExample, "Route", "Route", NoPort),
     IRListener(ACMEPort, OtherCom, "Reject", "Reject", NoPort)}

XFPHeader == [name |-> "X-Forwarded-Proto", exact_match |-> "https"]

\* A routing rule
Rule(prefix, regex, headers, hosts, precedence) ==
    [prefix |-> prefix, regex |-> regex, headers |-> headers, route |-> "cluster",
     hosts |-> hosts, precedence |-> precedence]

\* The routing rules the route walk is explored with
Rules ==
    {Rule(ACMEPrefix, None, << >>, {Star}, 0),
     Rule(ACMEPrefix, None, << >>, {FooExample}, 0),
     Rule("/", None, << >>, {Star}, 0),
     Rule("/", None, << >>, {FooExample}, 0),
     Rule("/", None, << >>, {StarExample}, 0),
     Rule("/", None, << XFPHeader >>, {FooExample}, 0),
     Rule(None, RootRegex, << >>, {Star}, FallbackPrecedence),
     Rule(None, RootRegex, << >>, {FooExample}, FallbackPrecedence),
     Rule(None, RootRegex, << >>, {StarExample}, FallbackPrecedence),
     Rule(None, RootRegex, << >>, {FooExample}, 0)}

\* More of them
WideRules ==
    {Rule(prefix, None, headers, hosts, 0) :
        prefix \in {ACMEPrefix, "/"}, headers \in {<< >>, << XFPHeader >>},
        hosts \in {{Star}, {FooExample}, {StarExample}, {FooExample, OtherCom}}}
    \cup
    {Rule(None, RootRegex, << >>, hosts, precedence) :
        hosts \in {{Star}, {FooExample}, {StarExample}},
        precedence \in {0, FallbackPrecedence}}

\* The routing rules the order of the output is explored with
MixedRules ==
    {Rule(ACMEPrefix, None, << >>, {FooExample}, 0),
     Rule("/", None, << >>, {FooExample}, 0),
     Rule("/", None, << >>, {Star}, 0),
     Rule(None, RootRegex, << >>, {Star}, FallbackPrecedence)}

ACMERule == [prefix |-> ACMEPrefix, regex |-> None, headers |-> << >>,
             route |-> "cluster", hosts |-> {OtherCom}, precedence |-> 0]

TCPGroup == [address |-> "0.0.0.0", port |-> 6789, tls_context |-> None,
             host |-> EmptyHost, clusters |-> << "cluster_tcp" >>]

\* A second group at the bind endpoint of the first, with a TLS context and a host
TLSGroup == [address |-> "0.0.0.0", port |-> 6789, tls_context |-> "ctx-a",
             host |-> FooExample, clusters |-> << "cluster_tls" >>]

\* The TCP mapping groups the TCP listeners are explored with
TCPGroups ==
    [address : {"0.0.0.0"}, port : {6789, 6790}, tls_context : {None, "ctx-a", "ctx-b"},
     host : {EmptyHost, FooExample}, clusters : {<< "cluster_tcp" >>}]

SeqsUpTo(S, n) == UNION {[1..m -> S] : m \in 0..n}

NoCall == [name |-> << >>, hostname |-> << >>, context |-> None, secure |-> FALSE,
           action |-> None, insecure_action |-> None]

InitWith(decls, rules, groups, edges) ==
    /\ ir_listeners \in decls
    /\ routes \in rules
    /\ tcp_groups \in groups
    /\ \E e \in edges : edge_stack_allowed = e[1] /\ agent_active = e[2]
    /\ pc = "start"
    /\ idx = 0
    /\ listeners_by_port = << >>
    /\ first_irlistener_by_port = [p \in Ports |-> 0]
    /\ config_listeners = << >>
    /\ tcplisteners = << >>
    /\ err = ""
    /\ call = NoCall
    /\ outputs = << >>
    /\ ambassador_module = DefaultModule
    /\ http_config = NoConfig
    /\ posted_errors = << >>

Init ==
    InitWith(SeqsUpTo(ListenerDecls, MaxDecls), {<< ACMERule >>}, {<< TCPGroup >>},
             {<<FALSE, FALSE>>, <<TRUE, FALSE>>, <<TRUE, TRUE>>})

InitRoutes ==
    InitWith(SeqsUpTo(RouteDecls, MaxDecls), SeqsUpTo(Rules, MaxRoutes), {<< TCPGroup >>},
             {<<FALSE, FALSE>>, <<TRUE, FALSE>>})

InitMixed ==
    InitWith(SeqsUpTo(MixedDecls, MaxDecls), SeqsUpTo(MixedRules, MaxOrdered),
             {<< TCPGroup >>}, {<<FALSE, FALSE>>, <<TRUE, FALSE>>})

InitTwice ==
    InitWith(SeqsUpTo(MixedDecls, MaxDecls), SeqsUpTo(MixedRules, MaxOrdered),
             {<< TCPGroup, TLSGroup >>}, {<<FALSE, FALSE>>, <<TRUE, FALSE>>})

InitTCP ==
    InitWith({<< IRListener(SecurePort, FooExample, "Route", "Redirect", ACMEPort) >>},
             {<< ACMERule >>}, SeqsUpTo(TCPGroups, MaxGroups), {<<FALSE, FALSE>>})

InitOrder ==
    InitWith(SeqsUpTo(OrderDecls, MaxDecls), {<< ACMERule >>}, {<< TCPGroup >>},
             {<<FALSE, FALSE>>, <<TRUE, FALSE>>})

InitRoutesWide ==
    InitWith(SeqsUpTo(WideRouteDecls, 2), SeqsUpTo(WideRules, 1), {<< TCPGroup >>},
             {<<FALSE, FALSE>>, <<TRUE, FALSE>>})

-----------------------------------------------------------------------------
(* V3Listener.generate, step by step *)

inputs == <<ir_listeners, routes, tcp_groups, edge_stack_allowed, agent_active,
            ambassador_module>>

\* What base_http_config returned and posted
http == <<http_config, posted_errors>>

\* generate without line 591: config.listeners keeps what it held
GenerateKeepingOutput ==
    /\ pc = "start"
    /\ listeners_by_port' = << >>
    /\ first_irlistener_by_port' = [p \in Ports |-> 0]
    /\ idx' = 1
    /\ pc' = "irlisteners"
    /\ UNCHANGED <<inputs, http, outputs, config_listeners, tcplisteners, err, call>>

\* Lines 590-609: the output is reset and the registries are created
Generate ==
    /\ pc = "start"
    /\ config_listeners' = << >>
    /\ listeners_by_port' = << >>
    /\ first_irlistener_by_port' = [p \in Ports |-> 0]
    /\ idx' = 1
    /\ pc' = "irlisteners"
    /\ UNCHANGED <<inputs, http, outputs, tcplisteners, err, call>>

\* One ingress declaration, with every listener emitted as soon as it is assembled
IRListenerStepEmitting ==
    /\ pc = "irlisteners"
    /\ idx <= Len(ir_listeners)
    /\ LET r == ProcessIRListener(listeners_by_port, first_irlistener_by_port,
                                  ir_listeners[idx], idx)
       IN  /\ listeners_by_port' = r.lbp
           /\ first_irlistener_by_port' = r.fibp
           /\ err' = r.err
           /\ pc' = IF r.err # "" THEN "failed" ELSE "irlisteners"
           /\ config_listeners' = [n \in 1..Len(r.lbp) |-> AsDict(r.lbp[n])]
    /\ idx' = idx + 1
    /\ UNCHANGED <<inputs, http, outputs, tcplisteners, call>>

\* Lines 611-648: one ingress declaration
IRListenerStep ==
    /\ pc = "irlisteners"
    /\ idx <= Len(ir_listeners)
    /\ LET r == ProcessIRListener(listeners_by_port, first_irlistener_by_port,
                                  ir_listeners[idx], idx)
       IN  /\ listeners_by_port' = r.lbp
           /\ first_irlistener_by_port' = r.fibp
           /\ err' = r.err
           /\ pc' = IF r.err # "" THEN "failed" ELSE "irlisteners"
    /\ idx' = idx + 1
    /\ UNCHANGED <<inputs, http, outputs, config_listeners, tcplisteners, call>>

\* Lines 654-687: the '*' vhost of every listener, then the forced ACME listener
AfterIRListeners ==
    /\ pc = "irlisteners"
    /\ idx > Len(ir_listeners)
    /\ listeners_by_port' =
           ForceACMEListener([n \in 1..Len(listeners_by_port) |->
                                  ForceStar(listeners_by_port[n])],
                             first_irlistener_by_port, edge_stack_allowed, agent_active,
                             ir_listeners)
    /\ idx' = 1
    /\ pc' = "routes"
    /\ UNCHANGED <<inputs, http, outputs, first_irlistener_by_port, config_listeners, tcplisteners,
                   err, call>>

\* Lines 692-810: one routing rule, over every vhost of every listener
RouteStep ==
    /\ pc = "routes"
    /\ idx <= Len(routes)
    /\ listeners_by_port' =
           [n \in 1..Len(listeners_by_port) |->
               WalkListener(listeners_by_port[n], routes[idx], idx, edge_stack_allowed)]
    /\ idx' = idx + 1
    /\ UNCHANGED <<inputs, http, outputs, pc, first_irlistener_by_port, config_listeners, tcplisteners,
                   err, call>>

\* Lines 812-826: finalize every listener and emit it; the dict of the TCP
\* listeners is created
Finalize ==
    /\ pc = "routes"
    /\ idx > Len(routes)
    /\ config_listeners' =
           config_listeners \o [n \in 1..Len(listeners_by_port) |->
                                   AsDict(listeners_by_port[n])]
    /\ tcplisteners' = << >>
    /\ idx' = 1
    /\ pc' = "tcp"
    /\ UNCHANGED <<inputs, http, outputs, listeners_by_port, first_irlistener_by_port,
                   err, call>>

\* Lines 828-848: one TCP mapping group
TCPGroupStep ==
    /\ pc = "tcp"
    /\ idx <= Len(tcp_groups)
    /\ LET irgroup == tcp_groups[idx]
           group_key == BindTo(irgroup)
           found == TCPListenerIndex(tcplisteners, group_key)
           created == Append(config_listeners, V3TCPListenerInit(irgroup))
           listeners == IF found = 0 THEN created ELSE config_listeners
           n == IF found = 0 THEN Len(created) ELSE found
       IN  /\ config_listeners' = [listeners EXCEPT ![n] = AddGroup(listeners[n], irgroup)]
           /\ tcplisteners' = IF found = 0
                              THEN Append(tcplisteners, [key |-> group_key, index |-> n])
                              ELSE tcplisteners
    /\ idx' = idx + 1
    /\ UNCHANGED <<inputs, http, outputs, pc, listeners_by_port, first_irlistener_by_port, err, call>>

\* generate returns
Return ==
    /\ pc = "tcp"
    /\ idx > Len(tcp_groups)
    /\ pc' = "done"
    /\ outputs' = Append(outputs, config_listeners)
    /\ UNCHANGED <<inputs, http, idx, listeners_by_port, first_irlistener_by_port,
                   config_listeners, tcplisteners, err, call>>

\* generate is called again on the same configuration
Recompile ==
    /\ pc = "done"
    /\ Len(outputs) < MaxRuns
    /\ pc' = "start"
    /\ idx' = 0
    /\ UNCHANGED <<inputs, http, outputs, listeners_by_port, first_irlistener_by_port,
                   config_listeners, tcplisteners, err, call>>

-----------------------------------------------------------------------------
(* V3Listener.make_vhost called directly on one listener *)

VhostCalls ==
    [name : {<<"first">>, <<"second">>}, hostname : {Star, FooExample},
     context : {None, "ctx-a"}, secure : BOOLEAN, action : {None, "Route"},
     insecure_action : {"Route", "Reject"}]

InitVhost ==
    /\ ir_listeners = << >>
    /\ routes = << >>
    /\ tcp_groups = << >>
    /\ edge_stack_allowed = FALSE
    /\ agent_active = FALSE
    /\ pc = "make_vhost"
    /\ idx = 0
    /\ listeners_by_port = << V3ListenerInit(SecurePort) >>
    /\ first_irlistener_by_port = [p \in Ports |-> 0]
    /\ config_listeners = << >>
    /\ tcplisteners = << >>
    /\ err = ""
    /\ call = NoCall
    /\ outputs = << >>
    /\ ambassador_module = DefaultModule
    /\ http_config = NoConfig
    /\ posted_errors = << >>

\* One call of make_vhost; an exception it raises is caught by the caller
MakeVhostCall ==
    /\ pc = "make_vhost"
    /\ idx < MaxCalls
    /\ \E c \in VhostCalls :
          LET m == MakeVhost(listeners_by_port[1], c.name, c.hostname, c.context,
                             c.secure, c.action, c.insecure_action)
          IN  /\ listeners_by_port' = << m.listener >>
              /\ err' = m.err
              /\ call' = c
    /\ idx' = idx + 1
    /\ UNCHANGED <<inputs, http, outputs, pc, first_irlistener_by_port, config_listeners, tcplisteners>>

NextVhost == MakeVhostCall

-----------------------------------------------------------------------------
(* V3Listener.base_http_config called on one listener *)

\* The entries a header_case_overrides list is made of
HeaderEntries == {StrValue("X-Cool"), StrValue("X-COOL"), IntValue("7")}

\* The values header_case_overrides is given
OverrideValues ==
    {NoneValue, StrValue(""), StrValue("X-Cool"), IntValue("0")}
    \cup {ListValue(items) : items \in SeqsUpTo(HeaderEntries, MaxHeaders)}

Modules ==
    [proper_case : BOOLEAN, header_case_overrides : OverrideValues,
     enable_http10 : {None, "True"}]

InitHTTP ==
    /\ ir_listeners = << >>
    /\ routes = << >>
    /\ tcp_groups = << >>
    /\ edge_stack_allowed = FALSE
    /\ agent_active = FALSE
    /\ ambassador_module \in Modules
    /\ pc = "base_http_config"
    /\ idx = 0
    /\ listeners_by_port = << V3ListenerInit(SecurePort) >>
    /\ first_irlistener_by_port = [p \in Ports |-> 0]
    /\ config_listeners = << >>
    /\ tcplisteners = << >>
    /\ err = ""
    /\ call = NoCall
    /\ outputs = << >>
    /\ http_config = NoConfig
    /\ posted_errors = << >>

\* One call of base_http_config
BaseHTTPConfigCall ==
    /\ pc = "base_http_config"
    /\ LET r == BaseHTTPConfig(ambassador_module)
       IN  /\ http_config' = r.http_protocol_options
           /\ posted_errors' = posted_errors \o r.errors
    /\ pc' = "returned"
    /\ UNCHANGED <<inputs, outputs, idx, listeners_by_port, first_irlistener_by_port,
                   config_listeners, tcplisteners, err, call>>

NextHTTP == BaseHTTPConfigCall

SpecHTTP == InitHTTP /\ [][NextHTTP]_vars

SpecVhost == InitVhost /\ [][NextVhost]_vars

Next ==
    \/ Generate
    \/ IRListenerStep
    \/ AfterIRListeners
    \/ RouteStep
    \/ Finalize
    \/ TCPGroupStep
    \/ Return

Spec == Init /\ [][Next]_vars

SpecRoutes == InitRoutes /\ [][Next]_vars

SpecRoutesWide == InitRoutesWide /\ [][Next]_vars

SpecMixed == InitMixed /\ [][Next]_vars

SpecTCP == InitTCP /\ [][Next]_vars

SpecOrder == InitOrder /\ [][Next]_vars

NextTwice ==
    \/ Next
    \/ Recompile

SpecTwice == InitTwice /\ [][NextTwice]_vars

-----------------------------------------------------------------------------
(* Vocabulary of the properties *)

\* The ports an ingress declaration references
Refs(irl) ==
    {irl.service_port} \cup
    (IF irl.insecure_addl_port > NoPort THEN {irl.insecure_addl_port} ELSE {})

ReferencedPorts == UNION {Refs(ir_listeners[i]) : i \in 1..Len(ir_listeners)}

\* The first declaration that references a port
FirstRef(p) ==
    CHOOSE i \in 1..Len(ir_listeners) :
        /\ p \in Refs(ir_listeners[i])
        /\ \A k \in 1..(i - 1) : p \notin Refs(ir_listeners[k])

\* The declarations generate has gone through so far
Processed ==
    IF pc = "start" THEN {}
    ELSE IF pc \in {"irlisteners", "failed"} THEN 1..(idx - 1)
    ELSE 1..Len(ir_listeners)

IsHTTP(l) == l.name[1] = "ambassador-listener-"

EmittedHTTP == {n \in 1..Len(config_listeners) : IsHTTP(config_listeners[n])}

HasProxyProto(l) ==
    \E n \in 1..Len(l.listener_filters) :
        l.listener_filters[n] = "envoy.filters.listener.proxy_protocol"

Succeeded == pc = "done"

AfterAssembly == pc \in {"routes", "tcp", "done"}

\* C1: after generate succeeds every referenced port has exactly one emitted HTTP
\* listener, whose proxy-protocol flag is the one of the first declaration that
\* referenced the port; and generate fails as soon as two declarations it has gone
\* through request one port with different flags.
C1_OneListenerPerPort ==
    /\ Succeeded =>
          \A p \in ReferencedPorts :
              /\ Cardinality({n \in EmittedHTTP : config_listeners[n].port_value = p}) = 1
              /\ \A n \in EmittedHTTP :
                    config_listeners[n].port_value = p =>
                       (HasProxyProto(config_listeners[n])
                           <=> ir_listeners[FirstRef(p)].use_proxy_proto)
    /\ pc # "failed" =>
          \A i, k \in Processed :
              Refs(ir_listeners[i]) \cap Refs(ir_listeners[k]) # {} =>
                  ir_listeners[i].use_proxy_proto = ir_listeners[k].use_proxy_proto

\* Two declarations share port 8080 (one as its insecure additional port) with the
\* proxy protocol on, and the listener was emitted with it
C1_Witness ==
    /\ Succeeded
    /\ Len(ir_listeners) = 2
    /\ ir_listeners[1].insecure_addl_port = ACMEPort
    /\ ir_listeners[1].service_port = SecurePort
    /\ ir_listeners[2].service_port = ACMEPort
    /\ ir_listeners[1].use_proxy_proto
    /\ \E n \in EmittedHTTP : /\ config_listeners[n].port_value = ACMEPort
                              /\ HasProxyProto(config_listeners[n])

StarVhosts(listener) ==
    {n \in 1..Len(listener.vhosts) : listener.vhosts[n]._hostname = Star}

Unchanged(vhost) ==
    /\ vhost._hostname = vhost.key
    /\ vhost._name \in {vhost.key, <<"forced-8080">>}

\* C2: once the listeners are assembled every listener has exactly one vhost whose
\* hostname is '*'; on a listener where no '*' was registered it is the vhost
\* registered first, renamed with -forced-star, and every other vhost is as it
\* was registered; every emitted HTTP listener has exactly one '*' virtual host.
C2_OneStarVhost ==
    /\ AfterAssembly =>
          \A n \in 1..Len(listeners_by_port) :
              LET listener == listeners_by_port[n] IN
              /\ Cardinality(StarVhosts(listener)) = 1
              /\ IF \E m \in 1..Len(listener.vhosts) : listener.vhosts[m].key = Star
                 THEN \A m \in 1..Len(listener.vhosts) : Unchanged(listener.vhosts[m])
                 ELSE /\ listener.vhosts[1]._hostname = Star
                      /\ listener.vhosts[1]._name =
                             Append(listener.vhosts[1].key, "-forced-star")
                      /\ \A m \in 2..Len(listener.vhosts) :
                             Unchanged(listener.vhosts[m])
    /\ Succeeded =>
          \A n \in EmittedHTTP :
              Cardinality({m \in 1..Len(config_listeners[n].filter_chains) :
                  config_listeners[n].filter_chains[m].virtual_host.domains = << Star >>})
                  = 1

\* A listener with two named vhosts and no '*': the first one was coerced
C2_Witness ==
    /\ Succeeded
    /\ \E n \in 1..Len(listeners_by_port) :
          LET listener == listeners_by_port[n] IN
          /\ Len(listener.vhosts) = 2
          /\ listener.vhosts[1].key = OtherCom
          /\ listener.vhosts[1]._hostname = Star
          /\ listener.vhosts[2]._hostname = FooExample

\* C8: when generate has aborted with a fatal error, config.listeners is empty
C8_NoPartialOutput ==
    pc = "failed" => (err # "" /\ config_listeners = << >>)

\* generate aborted on a conflicting vhost after it had built a listener
C8_Witness ==
    /\ pc = "failed"
    /\ err = "vhost_redefinition"
    /\ Len(listeners_by_port) >= 1
    /\ config_listeners = << >>

ForcedVhost ==
    [key |-> Star, _name |-> <<"forced-8080">>, _hostname |-> Star, _ctx |-> None,
     _secure |-> FALSE, _action |-> None, _insecure_action |-> "Reject"]

WithoutRoutes(vhost) == [f \in DOMAIN vhost \ {"routes"} |-> vhost[f]]

\* C9: after generate succeeds in edge mode without the agent, a listener on port
\* 8080 exists and was emitted; when no declaration referenced 8080 it has the one
\* vhost '*' without context and secure action, rejecting insecure requests.
\* Otherwise every listener is on a port some declaration referenced.
C9_ForcedACMEListener ==
    Succeeded =>
       IF edge_stack_allowed /\ ~agent_active
       THEN /\ Contains(listeners_by_port, ACMEPort)
            /\ \E n \in EmittedHTTP : config_listeners[n].port_value = ACMEPort
            /\ ACMEPort \notin ReferencedPorts =>
                  LET listener == listeners_by_port[PortIndex(listeners_by_port, ACMEPort)]
                  IN  /\ Len(listener.vhosts) = 1
                      /\ WithoutRoutes(listener.vhosts[1]) = ForcedVhost
            /\ \A n \in 1..Len(listeners_by_port) :
                  listeners_by_port[n].port \in ReferencedPorts \cup {ACMEPort}
       ELSE /\ \A n \in 1..Len(listeners_by_port) :
                  listeners_by_port[n].port \in ReferencedPorts
            /\ \A n \in EmittedHTTP : config_listeners[n].port_value \in ReferencedPorts

\* Edge mode, declarations on port 8443 only: the listener on 8080 was forced
C9_Witness ==
    /\ Succeeded
    /\ edge_stack_allowed /\ ~agent_active
    /\ Len(ir_listeners) >= 1
    /\ ACMEPort \notin ReferencedPorts
    /\ \E n \in EmittedHTTP : config_listeners[n].port_value = ACMEPort

-----------------------------------------------------------------------------
(* make_vhost on one listener *)

\* The vhost a listener holds under a hostname
Existing(listener, hostname) == listener.vhosts[VhostIndex(listener, hostname)]

\* The arguments of a call are those the existing vhost was made with
SameTuple(vhost, c) ==
    /\ c.name = vhost._name
    /\ c.hostname = vhost._hostname
    /\ c.context = vhost._ctx
    /\ c.secure = vhost._secure
    /\ c.action = vhost._action
    /\ c.insecure_action = vhost._insecure_action

\* The same but for the name
SameButName(vhost, c) ==
    /\ c.hostname = vhost._hostname
    /\ c.context = vhost._ctx
    /\ c.secure = vhost._secure
    /\ c.action = vhost._action
    /\ c.insecure_action = vhost._insecure_action

IsCall == pc = "make_vhost" /\ idx' = idx + 1

\* C5 as stated: a second registration under a hostname is a no-op when its tuple
\* (name, hostname, context, secure, secure action, insecure action) is the existing
\* one, and raises, leaving the listener as it was, when the tuple differs in any
\* attribute.
C5_AnyDifferenceRaises ==
    [][(IsCall /\ HasVhost(listeners_by_port[1], call'.hostname)) =>
          /\ listeners_by_port' = listeners_by_port
          /\ IF SameTuple(Existing(listeners_by_port[1], call'.hostname), call')
             THEN err' = ""
             ELSE err' = "vhost_redefinition"]_vars

\* C5, amended: the name is not compared.  A second registration under a hostname
\* is a no-op when context, secure, secure action and insecure action are the
\* existing ones, whatever its name, and raises when one of these differs; the
\* listener (registry, first_vhost, the vhost and its routes) is left as it was in
\* both cases.
C5_SameKeyNoOpOrRaise ==
    [][(IsCall /\ HasVhost(listeners_by_port[1], call'.hostname)) =>
          /\ listeners_by_port' = listeners_by_port
          /\ IF SameButName(Existing(listeners_by_port[1], call'.hostname), call')
             THEN err' = ""
             ELSE err' = "vhost_redefinition"]_vars

\* A second call under the hostname of the first, with another insecure action,
\* was refused and the vhost of the first call is still there
C5_Witness ==
    /\ pc = "make_vhost"
    /\ idx = 2
    /\ err = "vhost_redefinition"
    /\ Len(listeners_by_port[1].vhosts) = 1
    /\ listeners_by_port[1].vhosts[1].key = call.hostname
    /\ listeners_by_port[1].vhosts[1]._insecure_action # call.insecure_action
    /\ listeners_by_port[1].vhosts[1]._ctx = call.context
    /\ listeners_by_port[1].vhosts[1]._secure = call.secure

DiffersInKeyPart(vhost, c) == c.secure # vhost._secure \/ c.context # vhost._ctx

\* C10 as stated: a registration with the hostname of an existing vhost but another
\* security flag or TLS context does not conflict and makes one more vhost
C10_CompositeKey ==
    [][(/\ IsCall
        /\ HasVhost(listeners_by_port[1], call'.hostname)
        /\ DiffersInKeyPart(Existing(listeners_by_port[1], call'.hostname), call')) =>
          /\ err' = ""
          /\ Len(listeners_by_port'[1].vhosts) = Len(listeners_by_port[1].vhosts) + 1]_vars

\* C10, amended: the identity of a vhost on a listener is its hostname alone.  A
\* registration with the hostname of an existing vhost but another security flag
\* or TLS context conflicts with it: make_vhost raises, and the listener keeps the
\* one vhost of that hostname.
C10_HostnameIsTheKey ==
    [][(/\ IsCall
        /\ HasVhost(listeners_by_port[1], call'.hostname)
        /\ DiffersInKeyPart(Existing(listeners_by_port[1], call'.hostname), call')) =>
          /\ err' = "vhost_redefinition"
          /\ Cardinality({n \in 1..Len(listeners_by_port'[1].vhosts) :
                 listeners_by_port'[1].vhosts[n]._hostname = call'.hostname}) = 1]_vars

\* A second call with the hostname of the first and another security flag was
\* refused
C10_Witness ==
    /\ pc = "make_vhost"
    /\ idx = 2
    /\ err = "vhost_redefinition"
    /\ Len(listeners_by_port[1].vhosts) = 1
    /\ listeners_by_port[1].vhosts[1].key = call.hostname
    /\ listeners_by_port[1].vhosts[1]._secure # call.secure
    /\ listeners_by_port[1].vhosts[1]._insecure_action = call.insecure_action

-----------------------------------------------------------------------------
(* The route walk *)

\* Host-glob matching as the specification defines it (section 4.1): '*' matches
\* everything, a pattern with one leading wildcard label matches the hostnames that
\* end with the rest of it, without regard to case, and any other pattern matches
\* itself only.
LowerHost(h) == [n \in 1..Len(h) |-> Lower(h[n])]

HostGlobMatches(pattern, hostname) ==
    IF pattern = Star THEN TRUE
    ELSE IF Len(pattern) > 1 /\ pattern[1] = "*"
    THEN /\ Len(hostname) >= Len(pattern)
         /\ SubSeq(LowerHost(hostname), Len(hostname) - Len(pattern) + 2, Len(hostname))
                = LowerHost(Tail(pattern))
    ELSE pattern = hostname

\* The rules generate has walked so far
Walked ==
    IF pc = "routes" THEN 1..(idx - 1)
    ELSE IF pc \in {"tcp", "done"} THEN 1..Len(routes)
    ELSE {}

\* Every vhost, as <<position of the listener, position of the vhost>>
AllVhosts ==
    {<<n, m>> \in (1..Len(listeners_by_port)) \X (1..2 * MaxDecls + 1) :
        m <= Len(listeners_by_port[n].vhosts)}

Vhost(v) == listeners_by_port[v[1]].vhosts[v[2]]

\* The entries of a vhost's route list that come from rule j
EntriesOf(vhost, j) == {k \in 1..Len(vhost.routes) : vhost.routes[k].rule = j}

SomeHostMatches(c_route, vhost) ==
    \E h \in c_route.hosts : HostGlobMatches(h, vhost._hostname)

\* The vhost is reachable by the rule's host constraints
Reachable(c_route, vhost) == vhost._hostname = Star \/ SomeHostMatches(c_route, vhost)

\* C3: a vhost reachable by the host constraints of a walked rule with the ACME
\* prefix has that rule in its route list, and whatever it has of that rule was
\* accepted as Route and carries the rule's route action, not a redirect,
\* whatever the vhost's own actions are.
C3_ACMEAlwaysRouted ==
    \A j \in Walked : \A v \in AllVhosts :
        (routes[j].prefix = ACMEPrefix /\ Reachable(routes[j], Vhost(v))) =>
            /\ EntriesOf(Vhost(v), j) # {}
            /\ \A k \in EntriesOf(Vhost(v), j) :
                  /\ Vhost(v).routes[k].action = "Route"
                  /\ Vhost(v).routes[k].route.route = routes[j].route
                  /\ Vhost(v).routes[k].route.redirect = None

\* An ACME rule reached a vhost whose secure and insecure actions are both Reject
C3_Witness ==
    /\ Succeeded
    /\ \E j \in Walked : \E v \in AllVhosts :
          /\ routes[j].prefix = ACMEPrefix
          /\ routes[j].hosts = {FooExample}
          /\ Vhost(v).key = FooExample
          /\ Vhost(v)._action = "Reject"
          /\ Vhost(v)._insecure_action = "Reject"
          /\ Cardinality(EntriesOf(Vhost(v), j)) = 2

Mismatched(c_route, vhost) ==
    /\ c_route.hosts # {Star}
    /\ vhost._hostname # Star
    /\ ~SomeHostMatches(c_route, vhost)

\* C4 as stated: a rule whose host constraints are not {*} is absent from every
\* vhost whose hostname is not '*' and is matched by none of the constraints
C4_MismatchedAbsent ==
    \A j \in Walked : \A v \in AllVhosts :
        Mismatched(routes[j], Vhost(v)) => EntriesOf(Vhost(v), j) = {}

\* C4, amended: the same for the rules whose match prefix is not the ACME prefix
C4_MismatchedAbsentButACME ==
    \A j \in Walked : \A v \in AllVhosts :
        (Mismatched(routes[j], Vhost(v)) /\ routes[j].prefix # ACMEPrefix) =>
            EntriesOf(Vhost(v), j) = {}

\* A rule for foo.example.com was walked over a listener with a vhost that took it
\* and the vhost other.com, which did not
C4_Witness ==
    /\ Succeeded
    /\ \E j \in Walked : \E v, w \in AllVhosts :
          /\ v[1] = w[1]
          /\ routes[j].prefix = "/"
          /\ routes[j].hosts = {FooExample}
          /\ Vhost(v)._hostname = OtherCom
          /\ Vhost(v)._insecure_action = "Route"
          /\ EntriesOf(Vhost(v), j) = {}
          /\ EntriesOf(Vhost(w), j) # {}

\* The vhost a listener holds for a declaration's hostname
VhostOn(port, irl) ==
    Existing(listeners_by_port[PortIndex(listeners_by_port, port)], OrStar(irl.hostname))

\* A declaration that routes secure requests and redirects insecure ones, with an
\* insecure additional port beside its service port
RoutesAndRedirects(irl) ==
    /\ irl.secure_action = "Route"
    /\ irl.insecure_action = "Redirect"
    /\ irl.insecure_addl_port > NoPort
    /\ irl.insecure_addl_port # irl.service_port

MatchOf(c_route) ==
    [prefix |-> c_route.prefix, regex |-> c_route.regex, headers |-> c_route.headers]

Original(c_route) == [match |-> MatchOf(c_route), route |-> c_route.route, redirect |-> None]

Guarded(c_route) ==
    [match |-> [MatchOf(c_route) EXCEPT !.headers = Append(c_route.headers, XFPGuard)],
     route |-> c_route.route, redirect |-> None]

Redirecting(c_route) ==
    [match |-> MatchOf(c_route), route |-> None, redirect |-> "https_redirect"]

Has(vhost, j, route) == \E k \in EntriesOf(vhost, j) : vhost.routes[k].route = route

MatchesXFP(c_route) ==
    \E n \in 1..Len(c_route.headers) :
        c_route.headers[n].name \in {"x-forwarded-proto", "X-Forwarded-Proto"}

IsFallback(c_route) ==
    edge_stack_allowed /\ c_route.precedence = FallbackPrecedence /\ c_route.regex = RootRegex

\* An earlier declaration registered the hostname of declaration i on its
\* insecure additional port
RegisteredBefore(i) ==
    \E k \in 1..(i - 1) :
        /\ ir_listeners[i].insecure_addl_port \in Refs(ir_listeners[k])
        /\ OrStar(ir_listeners[k].hostname) = OrStar(ir_listeners[i].hostname)

\* The secure copy of a rule: the rule with the x-forwarded-proto guard added,
\* or the rule as it is when it matches on x-forwarded-proto already
WithGuard(c_route) == IF MatchesXFP(c_route) THEN Original(c_route) ELSE Guarded(c_route)

\* C6 as stated: for a declaration with secure action Route and insecure action
\* Redirect on service port P with insecure additional port Q, and a rule whose
\* host constraints contain its hostname, the vhost on P has the rule with the
\* x-forwarded-proto guard, and the vhost on Q has the redirect copy of the rule
\* and not the rule itself.
C6_GuardedAndRedirected ==
    Succeeded =>
       \A i \in 1..Len(ir_listeners) : \A j \in 1..Len(routes) :
           (RoutesAndRedirects(ir_listeners[i]) /\ ir_listeners[i].hostname \in routes[j].hosts)
           =>
           LET irl == ir_listeners[i]
               p == VhostOn(irl.service_port, irl)
               q == VhostOn(irl.insecure_addl_port, irl)
           IN  /\ Has(p, j, WithGuard(routes[j]))
               /\ Has(q, j, Redirecting(routes[j]))
               /\ ~Has(q, j, Original(routes[j]))

\* C6, amended: the vhost on P has the guarded rule unless the rule is the
\* fallback mapping of edge mode (precedence -1000000, regex ^/$); the vhost on Q
\* has the redirect copy and not the rule itself unless the rule has the ACME
\* prefix, is that fallback mapping, or an earlier declaration registered the
\* hostname on Q.
C6_GuardedAndRedirectedUnlessOverridden ==
    Succeeded =>
       \A i \in 1..Len(ir_listeners) : \A j \in 1..Len(routes) :
           (/\ RoutesAndRedirects(ir_listeners[i])
            /\ ir_listeners[i].hostname \in routes[j].hosts
            /\ ~IsFallback(routes[j]))
           =>
           LET irl == ir_listeners[i]
               p == VhostOn(irl.service_port, irl)
               q == VhostOn(irl.insecure_addl_port, irl)
           IN  /\ Has(p, j, WithGuard(routes[j]))
               /\ (routes[j].prefix # ACMEPrefix /\ ~RegisteredBefore(i)) =>
                     /\ Has(q, j, Redirecting(routes[j]))
                     /\ ~Has(q, j, Original(routes[j]))

\* foo.example.com on 8443 with insecure port 8080 and a rule '/' for it: the
\* vhost on 8443 has the guarded rule, the vhost on 8080 only the redirect
C6_Witness ==
    /\ Succeeded
    /\ Len(ir_listeners) = 1
    /\ Len(routes) = 1
    /\ RoutesAndRedirects(ir_listeners[1])
    /\ ir_listeners[1].hostname = FooExample
    /\ routes[1].prefix = "/"
    /\ routes[1].headers = << >>
    /\ routes[1].hosts = {FooExample}
    /\ Has(VhostOn(SecurePort, ir_listeners[1]), 1, Guarded(routes[1]))
    /\ Len(VhostOn(ACMEPort, ir_listeners[1]).routes) = 1
    /\ Has(VhostOn(ACMEPort, ir_listeners[1]), 1, Redirecting(routes[1]))

\* C7: the overrides apply in the order ACME, host mismatch, fallback mapping.  A
\* rule with the ACME prefix is on a vhost whose hostname is not '*', matches none
\* of the rule's host constraints and whose insecure action is Reject, accepted as
\* Route; in edge mode a fallback mapping (precedence -1000000, regex ^/$) is not
\* on a vhost whose hostname is not '*' and matches none of its host constraints.
C7_OverridePriority ==
    \A j \in Walked : \A v \in AllVhosts :
        Mismatched(routes[j], Vhost(v)) =>
            /\ (routes[j].prefix = ACMEPrefix /\ Vhost(v)._insecure_action = "Reject") =>
                  \E k \in EntriesOf(Vhost(v), j) : Vhost(v).routes[k].action = "Route"
            /\ (/\ edge_stack_allowed
                /\ routes[j].precedence = FallbackPrecedence
                /\ routes[j].regex = RootRegex
                /\ routes[j].prefix # ACMEPrefix) =>
                  EntriesOf(Vhost(v), j) = {}

\* An ACME rule for foo.example.com is on the vhost other.com, whose secure side
\* is absent and whose insecure action is Reject
C7_Witness ==
    /\ Succeeded
    /\ \E j \in Walked : \E v \in AllVhosts :
          /\ routes[j].prefix = ACMEPrefix
          /\ routes[j].hosts = {FooExample}
          /\ Vhost(v)._hostname = OtherCom
          /\ Vhost(v)._action = None
          /\ Vhost(v)._insecure_action = "Reject"
          /\ \E k \in EntriesOf(Vhost(v), j) : Vhost(v).routes[k].action = "Route"

\* In edge mode a fallback mapping for foo.example.com is not on the vhost
\* other.com, whose insecure action is Route
C7_WitnessFallback ==
    /\ Succeeded
    /\ edge_stack_allowed
    /\ \E j \in Walked : \E v \in AllVhosts :
          /\ routes[j].precedence = FallbackPrecedence
          /\ routes[j].regex = RootRegex
          /\ routes[j].hosts = {FooExample}
          /\ Vhost(v)._hostname = OtherCom
          /\ Vhost(v)._insecure_action = "Route"
          /\ EntriesOf(Vhost(v), j) = {}

-----------------------------------------------------------------------------
(* The header-case settings *)

Returned == pc = "returned"

Overrides == ambassador_module.header_case_overrides

NotAnArray(value) == value.type \notin {"NoneType", "list"}

NonStrings(value) == {n \in 1..Len(value.items) : value.items[n].type # "str"}

Strings(value) == {value.items[n].text : n \in (1..Len(value.items)) \ NonStrings(value)}

EmptyList(value) == IsList(value) /\ Len(value.items) = 0

Posted(error) == \E n \in 1..Len(posted_errors) : posted_errors[n] = error

HasCustomRules == http_config.header_key_format.kind = "custom"

\* No custom rule comes from an entry that is not a string
RulesFromStringsOnly ==
    \A n \in 1..Len(http_config.header_key_format.rules) :
        LET rule == http_config.header_key_format.rules[n] IN
        /\ rule.value \in Strings(Overrides)
        /\ rule.key = Lower(rule.value)

\* C17 as stated: for a header_case_overrides that is not an array, a list with
\* entries that are not strings, proper_case together with header_case_overrides,
\* and an empty list, base_http_config posts a diagnostic and builds no custom rule
\* from the offending setting (with both set the format is proper-case), and it
\* returns without raising.
C17_MalformedReported ==
    Returned =>
       /\ err = ""
       /\ NotAnArray(Overrides) => (posted_errors # << >> /\ ~HasCustomRules)
       /\ NonStrings(Overrides) # {} => (posted_errors # << >> /\ RulesFromStringsOnly)
       /\ (ambassador_module.proper_case /\ Overrides # NoneValue) =>
              (posted_errors # << >> /\ http_config.header_key_format = ProperCaseWords)
       /\ EmptyList(Overrides) => (posted_errors # << >> /\ ~HasCustomRules)

\* C17, amended: an empty list, like every value Python takes as false, is
\* treated as absent without a diagnostic, also beside proper_case.  For a value
\* Python takes as true: one that is not an array is reported and no custom rule
\* is built; together with proper_case it is reported, the format is proper-case
\* and no custom rule is kept; a list alone has one diagnostic for every entry
\* that is not a string, its custom rules are those of the strings that remain,
\* and when none remains that is reported too and no rule is built.
\* base_http_config returns in every case.
C17_MalformedReportedUnlessFalsy ==
    Returned =>
       /\ err = ""
       /\ ~Truthy(Overrides) => (posted_errors = << >> /\ ~HasCustomRules)
       /\ (Truthy(Overrides) /\ NotAnArray(Overrides)) =>
              (Posted(NotAnArrayError) /\ ~HasCustomRules)
       /\ (Truthy(Overrides) /\ ambassador_module.proper_case) =>
              (Posted(BothSetError) /\ http_config.header_key_format = ProperCaseWords)
       /\ (IsList(Overrides) /\ NonStrings(Overrides) # {}) =>
              /\ posted_errors # << >>
              /\ RulesFromStringsOnly
              /\ ~ambassador_module.proper_case =>
                    /\ Cardinality({n \in 1..Len(posted_errors) :
                           posted_errors[n] = NonStringError})
                           = Cardinality(NonStrings(Overrides))
                    /\ IF Strings(Overrides) = {}
                       THEN Posted(NoValidHeaderError) /\ ~HasCustomRules
                       ELSE HasCustomRules
       /\ ambassador_module.proper_case => http_config.header_key_format = ProperCaseWords

\* A list of a number and a header, without proper_case: the number was reported
\* and the header has its rule
C17_Witness ==
    /\ Returned
    /\ ~ambassador_module.proper_case
    /\ Overrides = ListValue(<< IntValue("7"), StrValue("X-Cool") >>)
    /\ posted_errors = << NonStringError >>
    /\ http_config.header_key_format.rules = << [key |-> "x-cool", value |-> "X-Cool"] >>

\* proper_case beside a list of headers: reported, and the format is proper-case
C17_WitnessBothSet ==
    /\ Returned
    /\ ambassador_module.proper_case
    /\ Overrides = ListValue(<< StrValue("X-Cool") >>)
    /\ Posted(BothSetError)
    /\ http_config.header_key_format = ProperCaseWords

-----------------------------------------------------------------------------
(* Compiling again *)

\* The place of a port in the order the declarations reference the ports: a
\* declaration references its service port before its insecure additional port,
\* and a port no declaration references comes last
PortOrder(p) ==
    IF p \in ReferencedPorts
    THEN 2 * FirstRef(p) + (IF ir_listeners[FirstRef(p)].service_port = p THEN 0 ELSE 1)
    ELSE 2 * Len(ir_listeners) + 2

\* The first declaration that registers a hostname on a port
FirstReg(p, hostname) ==
    CHOOSE i \in 1..Len(ir_listeners) :
        /\ p \in Refs(ir_listeners[i])
        /\ OrStar(ir_listeners[i].hostname) = hostname
        /\ \A k \in 1..(i - 1) :
               ~(p \in Refs(ir_listeners[k]) /\ OrStar(ir_listeners[k].hostname) = hostname)

\* The listener a port was given
ListenerOf(p) == listeners_by_port[PortIndex(listeners_by_port, p)]

\* C11: every call of generate on the same configuration returns the same
\* config.listeners.  In it the HTTP listeners come first, in the order in which
\* the declarations first reference their ports; the filter chains of a listener
\* are its virtual hosts in the order in which the declarations first registered
\* their hostnames on the port; and the routes of a virtual host are in the order
\* of the rules.
C11_SameOutputInInputOrder ==
    /\ \A a, b \in 1..Len(outputs) : outputs[a] = outputs[b]
    /\ Succeeded =>
          /\ \A n, m \in 1..Len(config_listeners) :
                 (n < m /\ IsHTTP(config_listeners[m])) =>
                    /\ IsHTTP(config_listeners[n])
                    /\ PortOrder(config_listeners[n].port_value)
                          < PortOrder(config_listeners[m].port_value)
          /\ \A n \in EmittedHTTP :
                 LET p == config_listeners[n].port_value
                     chains == config_listeners[n].filter_chains
                     vhosts == ListenerOf(p).vhosts
                 IN  /\ Len(chains) = Len(vhosts)
                     /\ \A a \in 1..Len(chains) :
                            /\ chains[a].virtual_host.name =
                                  <<"ambassador-listener-", ToString(p), "-">>
                                     \o vhosts[a]._name
                            /\ Len(chains[a].virtual_host.routes) = Len(vhosts[a].routes)
                            /\ \A k \in 1..Len(vhosts[a].routes) :
                                   chains[a].virtual_host.routes[k] = vhosts[a].routes[k].route
                            /\ \A k, l \in 1..Len(vhosts[a].routes) :
                                   k < l => vhosts[a].routes[k].rule <= vhosts[a].routes[l].rule
                     /\ \A a, b \in 1..Len(vhosts) :
                            (a < b /\ p \in ReferencedPorts) =>
                               FirstReg(p, vhosts[a].key) < FirstReg(p, vhosts[b].key)

\* generate returned twice with two HTTP listeners and the TCP listener, one of
\* the HTTP listeners with two virtual hosts and two routes in one of them
C11_Witness ==
    /\ Succeeded
    /\ Len(outputs) = 2
    /\ Len(outputs[2]) = 3
    /\ \E n \in EmittedHTTP :
          /\ Len(outputs[2][n].filter_chains) = 2
          /\ Len(outputs[2][n].filter_chains[1].virtual_host.routes) >= 2
    /\ Len(outputs[2][3].filter_chains) = 2

-----------------------------------------------------------------------------
(* The route an override appends *)

\* C12 as stated: every route a vhost has of a rule with the ACME prefix is the
\* rule itself, with its match as it is and its route action, for the secure
\* candidate as for the insecure one.
C12_ACMEInsecureForm ==
    \A j \in Walked : \A v \in AllVhosts :
        routes[j].prefix = ACMEPrefix =>
            \A k \in EntriesOf(Vhost(v), j) :
                Vhost(v).routes[k].route = Original(routes[j])

\* C12, amended: of a rule with the ACME prefix the insecure candidate appends
\* the rule itself, also on a vhost that redirects, and the secure candidate
\* appends the secure copy of the rule, with the x-forwarded-proto guard; neither
\* appends the redirect copy.
C12_ACMEFormPerCandidate ==
    \A j \in Walked : \A v \in AllVhosts :
        routes[j].prefix = ACMEPrefix =>
            \A k \in EntriesOf(Vhost(v), j) :
                /\ Vhost(v).routes[k].route =
                      (IF Vhost(v).routes[k].secure THEN WithGuard(routes[j])
                       ELSE Original(routes[j]))
                /\ Vhost(v).routes[k].route # Redirecting(routes[j])

\* An ACME rule on a vhost that routes secure requests and redirects insecure
\* ones: the guarded copy first, then the rule itself
C12_Witness ==
    /\ Succeeded
    /\ \E j \in Walked : \E v \in AllVhosts :
          /\ routes[j].prefix = ACMEPrefix
          /\ Vhost(v)._action = "Route"
          /\ Vhost(v)._insecure_action = "Redirect"
          /\ Len(Vhost(v).routes) = 2
          /\ Vhost(v).routes[1].route = Guarded(routes[j])
          /\ Vhost(v).routes[2].route = Original(routes[j])

\* The candidates of step 3 a vhost has for a rule: "secure", "insecure"
Sides(vhost) ==
    (IF vhost._action # None THEN {TRUE} ELSE {}) \cup
    (IF vhost._insecure_action # None THEN {FALSE} ELSE {})

\* The action of a candidate in step 3
Step3Action(vhost, secure) == IF secure THEN vhost._action ELSE vhost._insecure_action

\* The route of a candidate in step 3
Step3Route(vhost, secure, c_route) ==
    IF secure THEN WithGuard(c_route)
    ELSE IF vhost._insecure_action = "Redirect" THEN Redirecting(c_route)
    ELSE Original(c_route)

\* The entries a candidate of rule j left in the vhost's route list
EntriesOfSide(vhost, j, secure) ==
    {k \in EntriesOf(vhost, j) : vhost.routes[k].secure = secure}

\* C13: for a rule without the ACME prefix whose host constraints do not contain
\* '*' and a vhost whose hostname is not '*', a candidate is rejected for its host
\* only if no host constraint glob-matches the hostname: when one does (as
\* *.example.com matches foo.example.com), every candidate whose action is not
\* Reject leaves its route on the vhost.
C13_GlobDecides ==
    \A j \in Walked : \A v \in AllVhosts :
        (/\ routes[j].prefix # ACMEPrefix
         /\ Star \notin routes[j].hosts
         /\ Vhost(v)._hostname # Star
         /\ SomeHostMatches(routes[j], Vhost(v)))
        =>
        \A secure \in Sides(Vhost(v)) :
            Step3Action(Vhost(v), secure) # "Reject" =>
                EntriesOfSide(Vhost(v), j, secure) # {}

\* What the code decides by: the candidates of such a rule are on such a vhost
\* exactly when the hostname itself is one of the host constraints
C13_LiteralDecides ==
    \A j \in Walked : \A v \in AllVhosts :
        (/\ routes[j].prefix # ACMEPrefix
         /\ Star \notin routes[j].hosts
         /\ Vhost(v)._hostname # Star)
        =>
        \A secure \in Sides(Vhost(v)) :
            EntriesOfSide(Vhost(v), j, secure) # {} <=>
                /\ Vhost(v)._hostname \in routes[j].hosts
                /\ (Step3Action(Vhost(v), secure) # "Reject" \/ IsFallback(routes[j]))

\* C14: in edge mode a rule without the ACME prefix, with precedence -1000000 and
\* regex ^/$, that is not host-mismatched on a vhost has, for every candidate of
\* the vhost, the rule itself accepted as Route, whatever the actions of the vhost;
\* outside edge mode a candidate of such a rule is on the vhost exactly when its
\* action of step 3 is not Reject, with the route and action of step 3.
C14_FallbackAlwaysRouted ==
    \A j \in Walked : \A v \in AllVhosts :
        (/\ routes[j].prefix # ACMEPrefix
         /\ routes[j].precedence = FallbackPrecedence
         /\ routes[j].regex = RootRegex
         /\ ~Mismatched(routes[j], Vhost(v)))
        =>
        \A secure \in Sides(Vhost(v)) :
            LET entries == EntriesOfSide(Vhost(v), j, secure) IN
            IF edge_stack_allowed
            THEN /\ entries # {}
                 /\ \A k \in entries :
                        /\ Vhost(v).routes[k].action = "Route"
                        /\ Vhost(v).routes[k].route = Original(routes[j])
            ELSE /\ entries # {} <=> Step3Action(Vhost(v), secure) # "Reject"
                 /\ \A k \in entries :
                        /\ Vhost(v).routes[k].action = Step3Action(Vhost(v), secure)
                        /\ Vhost(v).routes[k].route = Step3Route(Vhost(v), secure, routes[j])

\* The same where the hostname of the vhost is '*' or itself one of the host
\* constraints, or the host constraints contain '*'
C14_FallbackRoutedOnLiteralMatch ==
    \A j \in Walked : \A v \in AllVhosts :
        (/\ routes[j].prefix # ACMEPrefix
         /\ routes[j].precedence = FallbackPrecedence
         /\ routes[j].regex = RootRegex
         /\ \/ Star \in routes[j].hosts
            \/ Vhost(v)._hostname = Star
            \/ Vhost(v)._hostname \in routes[j].hosts)
        =>
        \A secure \in Sides(Vhost(v)) :
            LET entries == EntriesOfSide(Vhost(v), j, secure) IN
            IF edge_stack_allowed
            THEN /\ entries # {}
                 /\ \A k \in entries :
                        /\ Vhost(v).routes[k].action = "Route"
                        /\ Vhost(v).routes[k].route = Original(routes[j])
            ELSE /\ entries # {} <=> Step3Action(Vhost(v), secure) # "Reject"
                 /\ \A k \in entries :
                        /\ Vhost(v).routes[k].action = Step3Action(Vhost(v), secure)
                        /\ Vhost(v).routes[k].route = Step3Route(Vhost(v), secure, routes[j])

\* The listener on port 8080 was forced into existence
Forced8080 == Contains(listeners_by_port, ACMEPort) /\ ACMEPort \notin ReferencedPorts

\* C15: when generate has returned with the listener on port 8080 forced into
\* existence, every route of its '*' vhost comes from a rule with the ACME prefix
C15_ForcedListenerOnlyACME ==
    (Succeeded /\ Forced8080) =>
        \A m \in 1..Len(ListenerOf(ACMEPort).vhosts) :
            LET vhost == ListenerOf(ACMEPort).vhosts[m] IN
            \A k \in 1..Len(vhost.routes) :
                routes[vhost.routes[k].rule].prefix = ACMEPrefix

\* What the code lets through: rules with the ACME prefix and, the listener being
\* forced in edge mode only, the fallback mapping
C15_ForcedListenerACMEAndFallback ==
    (Succeeded /\ Forced8080) =>
        /\ Len(ListenerOf(ACMEPort).vhosts) = 1
        /\ \A j \in 1..Len(routes) :
               EntriesOf(ListenerOf(ACMEPort).vhosts[1], j) # {} <=>
                   (routes[j].prefix = ACMEPrefix \/ IsFallback(routes[j]))

-----------------------------------------------------------------------------
(* The TCP listeners *)

\* The TCP mapping groups generate has gone through so far
Added ==
    IF pc = "tcp" THEN 1..(idx - 1)
    ELSE IF pc = "done" THEN 1..Len(tcp_groups)
    ELSE {}

\* The filter chain group i contributed: the listener of its bind endpoint has
\* one chain for every group of that endpoint, in the order of the groups
ChainOf(i) ==
    LET group_key == BindTo(tcp_groups[i])
        n == TCPListenerIndex(tcplisteners, group_key)
        c == Cardinality({k \in 1..i : BindTo(tcp_groups[k]) = group_key})
    IN  config_listeners[n].filter_chains[c]

\* C16: the filter chain of every TCP mapping group has a transport socket
\* exactly when the group itself has a TLS context, and a server_names match
\* exactly when the group has a TLS context and a host other than '*', whether the
\* group created the TCP listener of its bind endpoint or joined it.
C16_ChainFollowsItsGroup ==
    \A i \in Added :
        LET group == tcp_groups[i] IN
        /\ ChainOf(i).filters = group.clusters
        /\ ChainOf(i).transport_socket # None <=> group.tls_context # None
        /\ ChainOf(i).transport_socket \in {None, group.tls_context}
        /\ ChainOf(i).server_names # << >> <=>
               (group.tls_context # None /\ OrStar(group.host) # Star)

\* The group that created the TCP listener of a bind endpoint
FirstAt(i) ==
    CHOOSE k \in 1..i :
        /\ BindTo(tcp_groups[k]) = BindTo(tcp_groups[i])
        /\ \A l \in 1..(k - 1) : BindTo(tcp_groups[l]) # BindTo(tcp_groups[i])

\* What the code does: the transport socket of a chain is the TLS context of the
\* group that created the listener, and server_names is there exactly when that
\* group has a TLS context and the chain's own group a host other than '*'
C16_ChainFollowsFirstGroup ==
    \A i \in Added :
        LET group == tcp_groups[i]
            first == tcp_groups[FirstAt(i)]
        IN  /\ ChainOf(i).filters = group.clusters
            /\ ChainOf(i).transport_socket = first.tls_context
            /\ ChainOf(i).server_names =
                   (IF first.tls_context # None /\ OrStar(group.host) # Star
                    THEN << group.host >> ELSE << >>)

-----------------------------------------------------------------------------
(* The order of a route list *)

\* A route list in the order of the rules, the secure candidate of a rule before
\* its insecure or redirect candidate
InRuleOrder(vroutes) ==
    \A k, l \in 1..Len(vroutes) :
        k < l =>
           \/ vroutes[k].rule < vroutes[l].rule
           \/ /\ vroutes[k].rule = vroutes[l].rule
              /\ vroutes[k].secure
              /\ ~vroutes[l].secure

IsPrefix(s, t) == Len(s) <= Len(t) /\ SubSeq(t, 1, Len(s)) = s

\* C18: while the rules are walked the route list of every vhost only grows at
\* its end, and it is in the order of the rules at every step, the route of the
\* secure candidate of a rule before that of its insecure or redirect candidate.
C18_AppendOnlyInRuleOrder ==
    [][pc = "routes" =>
          \A n \in 1..Len(listeners_by_port) :
              /\ Len(listeners_by_port'[n].vhosts) = Len(listeners_by_port[n].vhosts)
              /\ \A m \in 1..Len(listeners_by_port[n].vhosts) :
                     /\ IsPrefix(listeners_by_port[n].vhosts[m].routes,
                                 listeners_by_port'[n].vhosts[m].routes)
                     /\ InRuleOrder(listeners_by_port'[n].vhosts[m].routes)
                     /\ \A k \in 1..Len(listeners_by_port'[n].vhosts[m].routes) :
                            listeners_by_port'[n].vhosts[m].routes[k].rule
                                \in 1..(IF pc' = "routes" THEN idx' - 1 ELSE Len(routes))]_vars

\* Two rules were walked over a vhost that routes both sides: it has the secure
\* and the insecure route of the first rule, then those of the second
C18_Witness ==
    /\ Succeeded
    /\ Len(routes) = 2
    /\ routes[1] # routes[2]
    /\ \E v \in AllVhosts :
          /\ Len(Vhost(v).routes) = 4
          /\ Vhost(v).routes[1].rule = 1 /\ Vhost(v).routes[1].secure
          /\ Vhost(v).routes[2].rule = 1 /\ ~Vhost(v).routes[2].secure
          /\ Vhost(v).routes[3].rule = 2 /\ Vhost(v).routes[3].secure
          /\ Vhost(v).routes[4].rule = 2 /\ ~Vhost(v).routes[4].secure
          /\ Vhost(v).routes[1].route.match # Vhost(v).routes[3].route.match

-----------------------------------------------------------------------------
(* Declarations that repeat a hostname on a service port *)

\* generate goes through the declaration at idx
IsIRListenerStep == pc = "irlisteners" /\ idx <= Len(ir_listeners) /\ idx' = idx + 1

\* Declarations i and k have the same service port and the same hostname, which
\* is not empty
SameSlot(i, k) ==
    /\ ir_listeners[i].service_port = ir_listeners[k].service_port
    /\ ir_listeners[i].hostname = ir_listeners[k].hostname
    /\ ir_listeners[i].hostname # EmptyHost

\* The listener of the declaration's service port already has a vhost under the
\* name the declaration registers
HadVhost(irl) ==
    /\ Contains(listeners_by_port, irl.service_port)
    /\ HasVhost(ListenerOf(irl.service_port), OrStar(irl.hostname))

\* make_vhost found the vhost of the declaration at idx and returned: the
\* listener of the service port has the vhosts it had
WasNoOp ==
    /\ err' = ""
    /\ HadVhost(ir_listeners[idx])
    /\ LET p == ir_listeners[idx].service_port IN
       listeners_by_port'[PortIndex(listeners_by_port', p)].vhosts = ListenerOf(p).vhosts

\* C19 as stated: a declaration with the service port and the non-empty hostname
\* of a declaration generate has gone through aborts generate in add_irlistener,
\* whatever its other attributes; and a declaration for which make_vhost finds its
\* vhost and returns has the empty hostname.
C19_AlwaysCollides ==
    [][IsIRListenerStep =>
          /\ (\E i \in 1..(idx - 1) : SameSlot(i, idx)) =>
                 (pc' = "failed" /\ err' = "vhost_collision")
          /\ (err' = "" /\ HadVhost(ir_listeners[idx])) =>
                 (ir_listeners[idx].hostname = EmptyHost /\ WasNoOp)]_vars

\* C19, amended: such a declaration always aborts generate: in
\* V3ListenerCollection.get when its proxy-protocol flag differs from the
\* listener's, and otherwise (so whenever all the attributes are identical) in
\* add_irlistener.  The second half stands.
C19_CollidesUnlessFlagConflict ==
    [][IsIRListenerStep =>
          /\ (\E i \in 1..(idx - 1) : SameSlot(i, idx)) =>
                 /\ pc' = "failed"
                 /\ err' = (IF ir_listeners[idx].use_proxy_proto
                                  # ListenerOf(ir_listeners[idx].service_port).use_proxy_proto
                            THEN "upp_conflict" ELSE "vhost_collision")
                 /\ \A i \in 1..(idx - 1) :
                        (SameSlot(i, idx) /\ ir_listeners[i] = ir_listeners[idx]) =>
                            err' = "vhost_collision"
          /\ (err' = "" /\ HadVhost(ir_listeners[idx])) =>
                 (ir_listeners[idx].hostname = EmptyHost /\ WasNoOp)]_vars

\* The same declaration for foo.example.com twice: generate aborted with the
\* vhost collision at the second
C19_Witness ==
    /\ pc = "failed"
    /\ err = "vhost_collision"
    /\ idx = 3
    /\ ir_listeners[1] = ir_listeners[2]
    /\ ir_listeners[1].hostname = FooExample

\* The same declaration with the empty hostname twice: generate returned, with
\* one vhost on the listener
C19_WitnessNoOp ==
    /\ Succeeded
    /\ Len(ir_listeners) = 2
    /\ ir_listeners[1] = ir_listeners[2]
    /\ ir_listeners[1].hostname = EmptyHost
    /\ ir_listeners[1].insecure_addl_port = NoPort
    /\ Len(ListenerOf(ir_listeners[1].service_port).vhosts) = 1

-----------------------------------------------------------------------------
(* The vhost that was made the catch-all *)

\* No '*' vhost was registered on the listener
NoDeclaredStar(listener) == ~HasVhost(listener, Star)

\* C20: on a listener where no '*' vhost was registered, the vhost registered
\* first has the hostname '*' before any rule is walked, and for every walked rule,
\* whatever its host constraints, it has the route of each of its candidates
\* whose action of step 3 is not Reject; every other vhost of the listener has
\* nothing of a rule without the ACME prefix that is host-mismatched on it.
C20_CoercedVhostSkipsHostTest ==
    AfterAssembly =>
       \A n \in 1..Len(listeners_by_port) :
           LET listener == listeners_by_port[n]
               first == listener.vhosts[listener.first_vhost]
           IN
           NoDeclaredStar(listener) =>
              /\ first._hostname = Star
              /\ first.key # Star
              /\ \A j \in Walked :
                     /\ \A secure \in Sides(first) :
                            Step3Action(first, secure) # "Reject" =>
                                EntriesOfSide(first, j, secure) # {}
                     /\ \A m \in 1..Len(listener.vhosts) :
                            (/\ m # listener.first_vhost
                             /\ routes[j].prefix # ACMEPrefix
                             /\ Mismatched(routes[j], listener.vhosts[m])) =>
                                EntriesOf(listener.vhosts[m], j) = {}

\* A rule for foo.example.com on a listener whose first vhost was registered as
\* other.com: that vhost has the rule, and the vhost foo.example.com after it too
C20_Witness ==
    /\ Succeeded
    /\ \E n \in 1..Len(listeners_by_port) :
          LET listener == listeners_by_port[n] IN
          /\ Len(listener.vhosts) = 2
          /\ listener.vhosts[1].key = OtherCom
          /\ listener.vhosts[1]._hostname = Star
          /\ listener.vhosts[1]._insecure_action = "Route"
          /\ listener.vhosts[2].key = FooExample
          /\ \E j \in Walked :
                /\ routes[j].prefix = "/"
                /\ routes[j].hosts = {FooExample}
                /\ EntriesOf(listener.vhosts[1], j) # {}
                /\ EntriesOf(listener.vhosts[2], j) # {}

\* The same rule on a listener whose first vhost was registered as
\* foo.example.com: the vhost other.com after it has nothing of the rule
C20_WitnessFiltered ==
    /\ Succeeded
    /\ \E n \in 1..Len(listeners_by_port) :
          LET listener == listeners_by_port[n] IN
          /\ Len(listener.vhosts) = 2
          /\ listener.vhosts[1].key = FooExample
          /\ listener.vhosts[2].key = OtherCom
          /\ listener.vhosts[2]._insecure_action = "Route"
          /\ \E j \in Walked :
                /\ routes[j].prefix = "/"
                /\ routes[j].hosts = {FooExample}
                /\ EntriesOf(listener.vhosts[1], j) # {}
                /\ EntriesOf(listener.vhosts[2], j) = {}

-----------------------------------------------------------------------------
(* The order of two declarations that meet on one port *)

\* Declaration a has an insecure additional port other than its service port, and
\* declaration b has that port as its service port, with the hostname and the
\* proxy-protocol flag of a
MeetOnAddlPort(a, b) ==
    /\ a.insecure_addl_port > NoPort
    /\ a.insecure_addl_port # a.service_port
    /\ b.service_port = a.insecure_addl_port
    /\ b.hostname = a.hostname
    /\ b.use_proxy_proto = a.use_proxy_proto

\* generate has gone through both declarations of a list of two
BothProcessed == (pc = "irlisteners" /\ idx = 3) \/ AfterAssembly

\* generate has not yet ended its second declaration
BeforeSecond == pc = "start" \/ (pc = "irlisteners" /\ idx <= 2)

\* The listener of b's service port has one vhost of b's hostname, with the
\* attributes b registered
KeepsAttributesOf(b) ==
    LET listener == ListenerOf(b.service_port)
        same == {n \in 1..Len(listener.vhosts) :
                    listener.vhosts[n].key = OrStar(b.hostname)}
    IN  /\ Cardinality(same) = 1
        /\ \A n \in same :
               /\ listener.vhosts[n]._secure = TRUE
               /\ listener.vhosts[n]._ctx = b.context
               /\ listener.vhosts[n]._action = b.secure_action
               /\ listener.vhosts[n]._insecure_action = b.insecure_action

\* generate aborted at its second declaration with the given exception
AbortedAtSecond(e) == pc = "failed" /\ idx = 3 /\ err = e

\* The exception a second registration of the hostname on a port ends in:
\* add_irlistener's for a hostname that is not empty, make_vhost's for the empty one
CollisionOf(hostname) ==
    IF hostname = EmptyHost THEN "vhost_redefinition" ELSE "vhost_collision"

\* C21 as stated: of two declarations A (service port P, insecure additional port
\* Q, hostname h) and B (service port Q, hostname h, the same proxy-protocol
\* flag), the list B, A compiles, with one vhost of h on Q that has B's attributes,
\* and the list A, B aborts in add_irlistener with the vhost collision.
C21_OrderDecides ==
    Len(ir_listeners) = 2 =>
       /\ MeetOnAddlPort(ir_listeners[2], ir_listeners[1]) =>
              /\ pc # "failed"
              /\ BothProcessed => KeepsAttributesOf(ir_listeners[1])
       /\ MeetOnAddlPort(ir_listeners[1], ir_listeners[2]) =>
              (BeforeSecond \/ AbortedAtSecond("vhost_collision"))

\* C21, amended: the list A, B aborts at B, in add_irlistener when h is not empty
\* and in make_vhost when h is empty; the list B, A compiles, with one vhost of h
\* on Q that has B's attributes, unless B's insecure additional port is P, and
\* then it aborts at A in the same way.
C21_OrderDecidesUnlessMutual ==
    Len(ir_listeners) = 2 =>
       /\ (/\ MeetOnAddlPort(ir_listeners[2], ir_listeners[1])
           /\ ~MeetOnAddlPort(ir_listeners[1], ir_listeners[2])) =>
              /\ pc # "failed"
              /\ BothProcessed => KeepsAttributesOf(ir_listeners[1])
       /\ MeetOnAddlPort(ir_listeners[1], ir_listeners[2]) =>
              (BeforeSecond \/ AbortedAtSecond(CollisionOf(ir_listeners[1].hostname)))

\* foo.example.com on 8080 with insecure action Reject, then foo.example.com on
\* the secure port with insecure action Redirect and the insecure additional
\* port 8080: generate returned, and the vhost on 8080 is the first declaration's
C21_Witness ==
    /\ Succeeded
    /\ Len(ir_listeners) = 2
    /\ MeetOnAddlPort(ir_listeners[2], ir_listeners[1])
    /\ ir_listeners[1].hostname = FooExample
    /\ ir_listeners[1].service_port = ACMEPort
    /\ ir_listeners[1].insecure_action = "Reject"
    /\ ir_listeners[2].insecure_action = "Redirect"
    /\ KeepsAttributesOf(ir_listeners[1])
    /\ Len(ListenerOf(ACMEPort).vhosts) = 1

\* The same two declarations the other way round: generate aborted at the second
\* with the vhost collision
C21_WitnessAbort ==
    /\ AbortedAtSecond("vhost_collision")
    /\ Len(ir_listeners) = 2
    /\ MeetOnAddlPort(ir_listeners[1], ir_listeners[2])
    /\ ~MeetOnAddlPort(ir_listeners[2], ir_listeners[1])
    /\ ir_listeners[1].hostname = FooExample
    /\ ir_listeners[2].service_port = ACMEPort

\* The list A, B with the empty hostname: generate aborted in make_vhost
C21_WitnessEmptyHost ==
    /\ AbortedAtSecond("vhost_redefinition")
    /\ Len(ir_listeners) = 2
    /\ MeetOnAddlPort(ir_listeners[1], ir_listeners[2])
    /\ ~MeetOnAddlPort(ir_listeners[2], ir_listeners[1])
    /\ ir_listeners[1].hostname = EmptyHost

\* Two declarations that name each other's service port: the list B, A aborted
C21_WitnessMutual ==
    /\ AbortedAtSecond("vhost_collision")
    /\ Len(ir_listeners) = 2
    /\ MeetOnAddlPort(ir_listeners[1], ir_listeners[2])
    /\ MeetOnAddlPort(ir_listeners[2], ir_listeners[1])

====
